---- MODULE Spec2Model ----
(***************************************************************************)
(* redux-auto-slice: the slice factory createAutoSlice of src/src/index.ts *)
(* as a state machine.  One container (the slice state held by the store)  *)
(* is driven by dispatched commands: the generated reducers of the array   *)
(* adapter and of the entity adapter, and the pending / fulfilled /        *)
(* rejected notifications of the registered async thunks.                  *)
(*                                                                         *)
(* JavaScript values are records tagged by k:                              *)
(*   [k |-> "undefined"], [k |-> "null"], [k |-> "number", n |-> 1],       *)
(*   [k |-> "string", s |-> "a"], [k |-> "boolean", b |-> TRUE],           *)
(*   [k |-> "object", ref |-> r, f |-> fields], [k |-> "array", items]     *)
(* An object's fields f is a function from its own property names to       *)
(* values.  ref is the identity of the object: 0 for an object literal     *)
(* written at the call site or built by a reducer, r > 0 for an object the *)
(* caller holds a reference to and may dispatch again.                     *)
(***************************************************************************)
EXTENDS Integers, Sequences, FiniteSets, TLC

VARIABLES
  cfg,        \* the configuration createAutoSlice was called with
  state,      \* the slice state held by the store
  prev,       \* the slice state before the last dispatch
  last,       \* the last dispatched action: [op, p]
  raised,     \* whether the reducer threw on the last dispatch
  hist,       \* the commands applied so far (recorded when cfg.track)
  inflight,   \* per thunk: the tasks that are pending and not yet settled
  overlapped  \* whether two tasks have ever been in flight at the same time

vars == <<cfg, state, prev, last, raised, hist, inflight, overlapped>>

----------------------------------------------------------------------------
(* Bounds of the model *)

\* longest array payload
MaxBatch == 2
\* longest collection of the array adapter
MaxLen == 3
\* largest number an incremented field may reach
MaxValue == 3
\* tasks of one thunk that may be in flight together
MaxInflight == 2
\* commands of a recorded history
MaxOps == 3

----------------------------------------------------------------------------
(* JavaScript values *)

Undefined == [k |-> "undefined"]
Null == [k |-> "null"]
Num(n) == [k |-> "number", n |-> n]
Str(s) == [k |-> "string", s |-> s]
Bool(b) == [k |-> "boolean", b |-> b]
Obj(f) == [k |-> "object", ref |-> 0, f |-> f]
Ref(r, f) == [k |-> "object", ref |-> r, f |-> f]
Arr(items) == [k |-> "array", items |-> items]
NoFields == [x \in {} |-> Undefined]

\* v === null || v === undefined: a property read on it throws a TypeError
Nullish(v) == v.k \in {"undefined", "null"}

\* typeof v
TypeOf(v) ==
  CASE v.k \in {"null", "object", "array"} -> "object"
    [] OTHER -> v.k

\* 'fld' in v, for v a non-null object
In(fld, v) == v.k = "object" /\ fld \in DOMAIN v.f

\* v.fld, for v neither null nor undefined (a primitive has no own fields)
Get(v, fld) == IF In(fld, v) THEN v.f[fld] ELSE Undefined

\* a === b: primitives by value, objects and arrays by identity
StrictEq(a, b) ==
  CASE a.k = "object" /\ b.k = "object" -> a.ref = b.ref /\ a.ref # 0
    [] a.k \in {"object", "array"} \/ b.k \in {"object", "array"} -> FALSE
    [] OTHER -> a = b

\* the truthiness of v in a condition
Truthy(v) ==
  CASE v.k \in {"undefined", "null"} -> FALSE
    [] v.k = "number" -> v.n # 0
    [] v.k = "string" -> v.s # ""
    [] v.k = "boolean" -> v.b
    [] OTHER -> TRUE

\* {...v}: the own enumerable properties of v (none for a primitive)
SpreadOf(v) == IF v.k = "object" THEN v.f ELSE NoFields

\* {...a, ...b}
Merge(f, g) ==
  [x \in DOMAIN f \cup DOMAIN g |-> IF x \in DOMAIN g THEN g[x] ELSE f[x]]

\* toId that keeps a numeric id apart from the string of the same digits
toId_KeepType(id) ==
  CASE id.k = "string" -> id.s
    [] id.k = "number" -> "#" \o ToString(id.n)
    [] OTHER -> id.k

\* function toId(id) { return String(id) }
toId(id) ==
  CASE id.k = "string" -> id.s
    [] id.k = "number" -> ToString(id.n)
    [] id.k = "boolean" -> IF id.b THEN "true" ELSE "false"
    [] id.k = "object" -> "[object Object]"
    [] OTHER -> id.k

\* Array.isArray(p) ? p : [p]
AsItems(p) == IF p.k = "array" THEN p.items ELSE <<p>>

Contains(seq, x) == \E i \in 1..Len(seq) : seq[i] = x

\* what a reducer does: it throws, or it leaves the next state
Ok(st) == [raised |-> FALSE, state |-> st]
Throw(st) == [raised |-> TRUE, state |-> st]

----------------------------------------------------------------------------
(* The entity adapter: createEntityReducers.  The state is a record with   *)
(* the fields entities (a function from string keys to entities) and ids   *)
(* (a sequence of string keys), and, under asyncThunks, loading, error and *)
(* status.  A reducer that mutates the draft keeps every other field; a    *)
(* reducer that returns a value replaces the whole state.                  *)

EmptyEntityState == [entities |-> <<>>, ids |-> <<>>]

\* m[key], undefined when m has no such key
Lookup(m, key) == IF key \in DOMAIN m THEN m[key] ELSE Undefined

\* m[key] = v
Put(m, key, v) == [x \in DOMAIN m \cup {key} |-> IF x = key THEN v ELSE m[x]]

\* delete m[key] for every key of keys
Drop(m, keys) == [x \in DOMAIN m \ keys |-> m[x]]

\* UpsertOne without the test !state.ids.includes(id)
UpsertOne_AlwaysPush(st, entity) ==
  LET id == toId(Get(entity, "id"))
  IN [st EXCEPT !.entities = Put(@, id, entity), !.ids = Append(@, id)]

\* the body of the loop of add, addMany and upsert, for an entity that is
\* neither null nor undefined
UpsertOne(st, entity) ==
  LET id == toId(Get(entity, "id"))
  IN [st EXCEPT !.entities = Put(@, id, entity),
                !.ids = IF Contains(@, id) THEN @ ELSE Append(@, id)]

RECURSIVE UpsertAll(_, _)
UpsertAll(st, items) ==
  IF items = <<>> THEN st
  ELSE UpsertAll(UpsertOne(st, Head(items)), Tail(items))

\* case 'add'
EntityAdd(st, p) ==
  LET items == AsItems(p)
  IN IF \E i \in 1..Len(items) : Nullish(items[i])
     THEN Throw(st)
     ELSE Ok(UpsertAll(st, items))

\* remove that deletes the entities and leaves ids as it was
EntityRemove_KeepIds(st, p) ==
  LET items == AsItems(p)
      idsToRemove == {toId(items[i]) : i \in 1..Len(items)}
  IN Ok([st EXCEPT !.entities = Drop(@, idsToRemove)])

\* case 'remove'
EntityRemove(st, p) ==
  LET items == AsItems(p)
      idsToRemove == {toId(items[i]) : i \in 1..Len(items)}
      keep(id) == id \notin idsToRemove
  IN Ok([st EXCEPT !.entities = Drop(@, idsToRemove),
                   !.ids = SelectSeq(@, keep)])

\* update that stores the changes in place of the entity
EntityUpdate_Replace(st, p) ==
  IF Nullish(p) THEN Throw(st)
  ELSE LET keyId == toId(Get(p, "id"))
           existing == Lookup(st.entities, keyId)
       IN IF Truthy(existing)
          THEN Ok([st EXCEPT !.entities =
                     Put(@, keyId, Obj(SpreadOf(Get(p, "changes"))))])
          ELSE Ok(st)

\* case 'update'
EntityUpdate(st, p) ==
  IF Nullish(p) THEN Throw(st)
  ELSE LET keyId == toId(Get(p, "id"))
           changes == Get(p, "changes")
           existing == Lookup(st.entities, keyId)
       IN IF Truthy(existing)
          THEN Ok([st EXCEPT !.entities =
                     Put(@, keyId, Obj(Merge(SpreadOf(existing), SpreadOf(changes))))])
          ELSE Ok(st)

\* clear that empties ids and leaves the entities
EntityClear_KeepEntities(st, p) == Ok([st EXCEPT !.ids = <<>>])

\* case 'clear'
EntityClear(st, p) == Ok(EmptyEntityState)

\* an EntityState handed over as payload, as a state: the payload is an
\* object with the fields entities (an object) and ids (an array of strings)
\* and, when the caller hands over a state of the overlay, loading, error
\* and status
AsEntityState(p) ==
  LET lifecycle == DOMAIN p.f \cap {"loading", "error", "status"}
  IN Merge([entities |-> p.f.entities.f,
            ids |-> [i \in 1..Len(p.f.ids.items) |-> p.f.ids.items[i].s]],
           [x \in lifecycle |->
              CASE x = "loading" -> p.f.loading.b
                [] x = "status" -> p.f.status.s
                [] OTHER -> p.f.error])

\* case 'set', for a payload that is absent or an EntityState: the value
\* returned takes the place of the whole state
EntitySet(st, p) ==
  IF Nullish(p) THEN Ok(EmptyEntityState) ELSE Ok(AsEntityState(p))

\* addMany that pushes the id of every item, present or not
EntityAddMany_PushAll(st, p) ==
  CASE Nullish(p) -> Ok(st)
    [] p.k = "array" ->
         IF \E i \in 1..Len(p.items) : Nullish(p.items[i])
         THEN Throw(st)
         ELSE Ok([UpsertAll(st, p.items) EXCEPT
                    !.ids = st.ids \o [i \in 1..Len(p.items) |->
                                         toId(Get(p.items[i], "id"))]])
    [] OTHER -> Throw(st)

\* case 'addMany': a payload that is neither absent nor an array (nor a
\* string, which is not among the payloads of the model) is not iterable
EntityAddMany(st, p) ==
  CASE Nullish(p) -> Ok(st)
    [] p.k = "array" ->
         IF \E i \in 1..Len(p.items) : Nullish(p.items[i])
         THEN Throw(st)
         ELSE Ok(UpsertAll(st, p.items))
    [] OTHER -> Throw(st)

\* removeMany that removes the first identifier of its payload only
EntityRemoveMany_FirstOnly(st, p) ==
  LET items == AsItems(p)
      idsToRemove == IF items = <<>> THEN {} ELSE {toId(items[1])}
      keep(id) == id \notin idsToRemove
  IN Ok([st EXCEPT !.entities = Drop(@, idsToRemove),
                   !.ids = SelectSeq(@, keep)])

\* case 'removeMany'
EntityRemoveMany(st, p) ==
  LET items == AsItems(p)
      idsToRemove == {toId(items[i]) : i \in 1..Len(items)}
      keep(id) == id \notin idsToRemove
  IN Ok([st EXCEPT !.entities = Drop(@, idsToRemove),
                   !.ids = SelectSeq(@, keep)])

\* upsert that leaves an entity that is already stored as it is
EntityUpsert_KeepExisting(st, p) ==
  LET items == AsItems(p)
      fresh(e) == ~Nullish(e) /\ toId(Get(e, "id")) \notin DOMAIN st.entities
  IN IF \E i \in 1..Len(items) : Nullish(items[i])
     THEN Throw(st)
     ELSE Ok(UpsertAll(st, SelectSeq(items, fresh)))

\* case 'upsert'
EntityUpsert(st, p) ==
  LET items == AsItems(p)
  IN IF \E i \in 1..Len(items) : Nullish(items[i])
     THEN Throw(st)
     ELSE Ok(UpsertAll(st, items))

\* the property name a destructured field defaults to: field = 'value'
FieldName(v) == IF v.k = "undefined" THEN "value" ELSE toId(v)

\* x + amount for a number x: a sum, or a concatenation with a string
Plus(x, amount) ==
  CASE amount.k = "number" -> Num(x + amount.n)
    [] amount.k = "undefined" -> Num(x + 1)
    [] amount.k = "null" -> Num(x)
    [] amount.k = "boolean" -> Num(x + (IF amount.b THEN 1 ELSE 0))
    [] OTHER -> Str(ToString(x) \o toId(amount))

\* increment that adds 1 whatever the amount
EntityIncrement_ByOne(st, p) ==
  LET q == IF Nullish(p) THEN Obj(NoFields) ELSE p
      keyId == toId(Get(q, "id"))
      field == FieldName(Get(q, "field"))
      existing == Lookup(st.entities, keyId)
  IN IF ~Truthy(existing) THEN Ok(st)
     ELSE IF In(field, existing) /\ existing.f[field].k = "number"
          THEN Ok([st EXCEPT !.entities =
                     Put(@, keyId, Obj(Put(existing.f, field,
                                           Num(existing.f[field].n + 1))))])
          ELSE Ok(st)

\* case 'increment'
EntityIncrement(st, p) ==
  LET q == IF Nullish(p) THEN Obj(NoFields) ELSE p
      keyId == toId(Get(q, "id"))
      field == FieldName(Get(q, "field"))
      existing == Lookup(st.entities, keyId)
  IN IF ~Truthy(existing) THEN Ok(st)
     ELSE IF TypeOf(existing) # "object" THEN Throw(st)
     ELSE IF In(field, existing) /\ existing.f[field].k = "number"
          THEN Ok([st EXCEPT !.entities =
                     Put(@, keyId, Obj(Put(existing.f, field,
                                           Plus(existing.f[field].n, Get(q, "amount")))))])
          ELSE Ok(st)

\* toggle that sets the field to true
EntityToggle_SetTrue(st, p) ==
  LET q == IF Nullish(p) THEN Obj(NoFields) ELSE p
      keyId == toId(Get(q, "id"))
      field == FieldName(Get(q, "field"))
      existing == Lookup(st.entities, keyId)
  IN IF ~Truthy(existing) THEN Ok(st)
     ELSE IF In(field, existing) /\ existing.f[field].k = "boolean"
          THEN Ok([st EXCEPT !.entities =
                     Put(@, keyId, Obj(Put(existing.f, field, Bool(TRUE))))])
          ELSE Ok(st)

\* case 'toggle'
EntityToggle(st, p) ==
  LET q == IF Nullish(p) THEN Obj(NoFields) ELSE p
      keyId == toId(Get(q, "id"))
      field == FieldName(Get(q, "field"))
      existing == Lookup(st.entities, keyId)
  IN IF ~Truthy(existing) THEN Ok(st)
     ELSE IF TypeOf(existing) # "object" THEN Throw(st)
     ELSE IF In(field, existing) /\ existing.f[field].k = "boolean"
          THEN Ok([st EXCEPT !.entities =
                     Put(@, keyId, Obj(Put(existing.f, field,
                                           Bool(~existing.f[field].b))))])
          ELSE Ok(st)

\* the reducer createEntityReducers builds for a name of ENTITY_REDUCERS
EntityReducer(op, st, p) ==
  CASE op = "add" -> EntityAdd(st, p)
    [] op = "remove" -> EntityRemove(st, p)
    [] op = "update" -> EntityUpdate(st, p)
    [] op = "clear" -> EntityClear(st, p)
    [] op = "set" -> EntitySet(st, p)
    [] op = "addMany" -> EntityAddMany(st, p)
    [] op = "removeMany" -> EntityRemoveMany(st, p)
    [] op = "upsert" -> EntityUpsert(st, p)
    [] op = "increment" -> EntityIncrement(st, p)
    [] op = "toggle" -> EntityToggle(st, p)

\* selectors of the entity adapter
EntitySelectAll(st) ==
  LET all == [i \in 1..Len(st.ids) |-> Lookup(st.entities, st.ids[i])]
  IN SelectSeq(all, Truthy)
EntitySelectTotal(st) == Len(st.ids)
EntitySelectIds(st) == st.ids
EntitySelectEntities(st) == st.entities
EntitySelectById(st, id) == Lookup(st.entities, toId(id))

----------------------------------------------------------------------------
(* The array adapter: createArrayReducers.  The state is the sequence of   *)
(* items; index i of the JavaScript array is position i + 1.               *)

\* state.findIndex((item) => item.id === id): the callback reads item.id of
\* every item up to the first match, and throws on a null or undefined item.
\* idx is the position found, 0 for -1.
FindIndex(st, id) ==
  LET hits == {i \in 1..Len(st) : ~Nullish(st[i]) /\ StrictEq(Get(st[i], "id"), id)}
      nulls == {i \in 1..Len(st) : Nullish(st[i])}
      Min(S) == CHOOSE i \in S : \A j \in S : i <= j
      idx == IF hits = {} THEN 0 ELSE Min(hits)
  IN [raised |-> nulls # {} /\ (idx = 0 \/ Min(nulls) < idx), idx |-> idx]

\* add that skips a value the collection already holds
ArrayAdd_Unique(st, p) == IF Contains(st, p) THEN Ok(st) ELSE Ok(Append(st, p))

\* case 'add'
ArrayAdd(st, p) == Ok(Append(st, p))

\* case 'remove'
ArrayRemove(st, p) ==
  LET other(item) == ~StrictEq(Get(item, "id"), p.f.id)
      differs(item) == ~StrictEq(item, p)
  IN IF In("id", p)
     THEN IF \E i \in 1..Len(st) : Nullish(st[i])
          THEN Throw(st)
          ELSE Ok(SelectSeq(st, other))
     ELSE Ok(SelectSeq(st, differs))

\* case 'clear'
ArrayClear(st, p) == Ok(<<>>)

\* case 'update'
ArrayUpdate(st, p) ==
  IF In("at", p) /\ p.f.at.k = "number"
  THEN IF p.f.at.n >= 0 /\ p.f.at.n < Len(st)
       THEN Ok([st EXCEPT ![p.f.at.n + 1] = Get(p, "value")])
       ELSE Ok(st)
  ELSE IF In("id", p) /\ In("changes", p)
  THEN LET found == FindIndex(st, p.f.id)
       IN IF found.raised THEN Throw(st)
          ELSE IF found.idx > 0 /\ st[found.idx].k = "object"
          THEN Ok([st EXCEPT ![found.idx] =
                     Obj(Merge(st[found.idx].f, SpreadOf(p.f.changes)))])
          ELSE Ok(st)
  ELSE Ok(st)

\* set that appends the payload to what is there
ArraySet_Append(st, p) ==
  CASE Nullish(p) -> Ok(st)
    [] p.k = "array" -> Ok(st \o p.items)

\* case 'set', for a payload that is absent or an array
ArraySet(st, p) ==
  CASE Nullish(p) -> Ok(<<>>)
    [] p.k = "array" -> Ok(p.items)

\* case 'addMany'
ArrayAddMany(st, p) == IF p.k = "array" THEN Ok(st \o p.items) ELSE Ok(st)

\* case 'removeMany'
ArrayRemoveMany(st, p) ==
  LET arr == AsItems(p)
      isIds == /\ Len(arr) > 0
               /\ In("id", arr[1])
               /\ arr[1].f.id.k \in {"string", "number"}
      idSet == {toId(Get(arr[i], "id")) : i \in 1..Len(arr)}
      notInIds(item) == toId(Get(item, "id")) \notin idSet
      notInValues(item) == ~\E i \in 1..Len(arr) : StrictEq(item, arr[i])
  IN IF isIds
     THEN IF \/ \E i \in 1..Len(arr) : Nullish(arr[i])
             \/ \E i \in 1..Len(st) : Nullish(st[i])
          THEN Throw(st)
          ELSE Ok(SelectSeq(st, notInIds))
     ELSE Ok(SelectSeq(st, notInValues))

\* the body of the loop of upsert: e?.id is undefined for a null or undefined e
ArrayUpsertOne(st, entity) ==
  LET id == IF Nullish(entity) THEN Undefined ELSE Get(entity, "id")
      found == FindIndex(st, id)
  IN IF found.raised THEN Throw(st)
     ELSE IF found.idx > 0 THEN Ok([st EXCEPT ![found.idx] = entity])
     ELSE Ok(Append(st, entity))

RECURSIVE ArrayUpsertAll(_, _, _)
ArrayUpsertAll(st0, st, items) ==
  IF items = <<>> THEN Ok(st)
  ELSE LET r == ArrayUpsertOne(st, Head(items))
       IN IF r.raised THEN Throw(st0)
          ELSE ArrayUpsertAll(st0, r.state, Tail(items))

\* case 'upsert'
ArrayUpsert(st, p) == ArrayUpsertAll(st, st, AsItems(p))

\* the reducer createArrayReducers builds for a name of ARRAY_REDUCERS
ArrayReducer(op, st, p) ==
  CASE op = "add" -> ArrayAdd(st, p)
    [] op = "remove" -> ArrayRemove(st, p)
    [] op = "clear" -> ArrayClear(st, p)
    [] op = "update" -> ArrayUpdate(st, p)
    [] op = "set" -> ArraySet(st, p)
    [] op = "addMany" -> ArrayAddMany(st, p)
    [] op = "removeMany" -> ArrayRemoveMany(st, p)
    [] op = "upsert" -> ArrayUpsert(st, p)

----------------------------------------------------------------------------
(* The lifecycle overlay: addAsyncExtraReducers.  loading is a boolean,    *)
(* status a string, error a JavaScript value.                              *)

DEFAULT_ASYNC_STATE == [loading |-> FALSE, error |-> Null, status |-> "idle"]

\* a ?? b
Coalesce(a, b) == IF Nullish(a) THEN b ELSE a

\* the pending case without state.error = null
AsyncPending_KeepError(st) ==
  Put(Put(st, "loading", TRUE), "status", "pending")

\* builder.addCase(thunk.pending, ...)
AsyncPending(st) ==
  Put(Put(Put(st, "loading", TRUE), "error", Null), "status", "pending")

\* the fulfilled case that counts on loading having been cleared already
AsyncFulfilled_KeepLoading(st) ==
  Put(Put(st, "error", Null), "status", "fulfilled")

\* the fulfilled case that also stores what the task resolved to, here an
\* empty list, as the elements
AsyncFulfilled_StoreResult(st) ==
  LET stored == [x \in DOMAIN st |-> IF x \in {"data", "ids"} THEN <<>> ELSE st[x]]
  IN Put(Put(Put(stored, "loading", FALSE), "error", Null), "status", "fulfilled")

\* builder.addCase(thunk.fulfilled, ...)
AsyncFulfilled(st) ==
  Put(Put(Put(st, "loading", FALSE), "error", Null), "status", "fulfilled")

\* the rejected case that stores the reason and leaves loading and status
AsyncRejected_KeepPending(st, a) ==
  LET message == IF Nullish(a.error) THEN Undefined ELSE Get(a.error, "message")
      reason == Coalesce(a.payload, Coalesce(message, Str("Request failed")))
  IN Put(st, "error", reason)

\* the rejected case that resets the phase instead of marking the failure
AsyncRejected_BackToIdle(st, a) ==
  LET message == IF Nullish(a.error) THEN Undefined ELSE Get(a.error, "message")
      reason == Coalesce(a.payload, Coalesce(message, Str("Request failed")))
  IN Put(Put(Put(st, "loading", FALSE), "error", reason), "status", "idle")

\* the rejected case with || where the code has ??
AsyncRejected_FirstTruthy(st, a) ==
  LET message == IF Nullish(a.error) THEN Undefined ELSE Get(a.error, "message")
      reason == IF Truthy(a.payload) THEN a.payload
                ELSE IF Truthy(message) THEN message ELSE Str("Request failed")
  IN Put(Put(Put(st, "loading", FALSE), "error", reason), "status", "rejected")

\* builder.addCase(thunk.rejected, ...): a is the action, with the fields
\* payload and error
AsyncRejected(st, a) ==
  LET message == IF Nullish(a.error) THEN Undefined ELSE Get(a.error, "message")
      reason == Coalesce(a.payload, Coalesce(message, Str("Request failed")))
  IN Put(Put(Put(st, "loading", FALSE), "error", reason), "status", "rejected")

----------------------------------------------------------------------------
(* Assembly: createAutoSlice.  cfg holds the configuration: adapter,       *)
(* initialState, reducers (the requested names), asyncThunks (the names of *)
(* the registered thunks), and track, which tells the model to record the  *)
(* applied commands in hist.                                               *)

ARRAY_REDUCERS ==
  {"add", "remove", "clear", "update", "set", "addMany", "removeMany", "upsert"}
ENTITY_REDUCERS ==
  {"add", "remove", "update", "clear", "set", "addMany", "removeMany", "upsert",
   "increment", "toggle"}

\* the overlay applied whatever asyncThunks holds
HasAsync_Always(c) == TRUE

\* asyncThunks && Object.keys(asyncThunks).length > 0
HasAsync(c) == c.asyncThunks # {}

\* the initial state handed to createSlice
InitialState(c) ==
  IF ~HasAsync(c) THEN c.initialState
  ELSE IF c.adapter = "entity" THEN Merge(c.initialState, DEFAULT_ASYNC_STATE)
  ELSE Merge([data |-> c.initialState], DEFAULT_ASYNC_STATE)

\* the case reducer of the slice for the generated command op: the entity
\* reducer on the whole state, the array reducer on the state or, under
\* asyncThunks, on state.data (wrappedReducers)
SliceReducer(c, op, st, p) ==
  IF c.adapter = "entity" THEN EntityReducer(op, st, p)
  ELSE IF ~HasAsync(c) THEN ArrayReducer(op, st, p)
  ELSE LET r == ArrayReducer(op, st.data, p)
       IN IF r.raised THEN Throw(st) ELSE Ok([st EXCEPT !.data = r.state])

\* the generated commands without the test isArrayReducer / isEntityReducer
Commands_AllRequested(c) == c.reducers

\* the generated commands of the slice
Commands(c) ==
  c.reducers \cap (IF c.adapter = "entity" THEN ENTITY_REDUCERS ELSE ARRAY_REDUCERS)

\* selectors.selectAll and selectors.selectTotal
SelectAll(c, st) ==
  IF c.adapter = "entity" THEN EntitySelectAll(st)
  ELSE IF HasAsync(c) THEN st.data ELSE st
SelectTotal(c, st) ==
  IF c.adapter = "entity" THEN EntitySelectTotal(st)
  ELSE IF HasAsync(c) THEN Len(st.data) ELSE Len(st)

----------------------------------------------------------------------------
(* Assembly, continued: the keys of the commands.  A configuration may     *)
(* also hold name, actionNaming ("short", "prefixed", or "absent" when the *)
(* caller gives none) and customReducers, the entries of the caller's      *)
(* object in the order of Object.entries: records [name, fn], fn naming a  *)
(* caller-written function.  A key is the sequence of its characters.      *)

\* the characters of the names the configurations use
CharsOf ==
  [add |-> <<"a", "d", "d">>,
   remove |-> <<"r", "e", "m", "o", "v", "e">>,
   update |-> <<"u", "p", "d", "a", "t", "e">>,
   clear |-> <<"c", "l", "e", "a", "r">>,
   set |-> <<"s", "e", "t">>,
   addMany |-> <<"a", "d", "d", "M", "a", "n", "y">>,
   removeMany |-> <<"r", "e", "m", "o", "v", "e", "M", "a", "n", "y">>,
   upsert |-> <<"u", "p", "s", "e", "r", "t">>,
   increment |-> <<"i", "n", "c", "r", "e", "m", "e", "n", "t">>,
   toggle |-> <<"t", "o", "g", "g", "l", "e">>,
   bogus |-> <<"b", "o", "g", "u", "s">>,
   reset |-> <<"r", "e", "s", "e", "t">>,
   double |-> <<"d", "o", "u", "b", "l", "e">>,
   pop |-> <<"p", "o", "p">>,
   unshift |-> <<"u", "n", "s", "h", "i", "f", "t">>,
   Add |-> <<"A", "d", "d">>,
   items |-> <<"i", "t", "e", "m", "s">>,
   users |-> <<"u", "s", "e", "r", "s">>,
   fetchUsers |-> <<"f", "e", "t", "c", "h", "U", "s", "e", "r", "s">>,
   saveUser |-> <<"s", "a", "v", "e", "U", "s", "e", "r">>]
Chars(s) == CharsOf[s]

\* ch.toUpperCase()
Upper(ch) ==
  LET up ==
    [a |-> "A", b |-> "B", c |-> "C", d |-> "D", e |-> "E", f |-> "F", g
     |-> "G", h |-> "H", i |-> "I", j |-> "J", k |-> "K", l |-> "L", m |->
     "M", n |-> "N", o |-> "O", p |-> "P", q |-> "Q", r |-> "R", s |-> "S",
     t |-> "T", u |-> "U", v |-> "V", w |-> "W", x |-> "X", y |-> "Y", z
     |-> "Z"]
  IN IF ch \in DOMAIN up THEN up[ch] ELSE ch

\* capitalize with every character upper-cased
capitalize_All(s) == [i \in 1..Len(s) |-> Upper(s[i])]

\* s.length ? s[0].toUpperCase() + s.slice(1) : s
capitalize(s) == IF Len(s) > 0 THEN <<Upper(s[1])>> \o Tail(s) ELSE s

\* the key of the reducer reducerName of the slice name
actionKey(name, reducerName, actionNaming) ==
  IF actionNaming = "prefixed"
  THEN Chars(name) \o capitalize(Chars(reducerName))
  ELSE Chars(reducerName)

\* createArrayReducers, createEntityReducers: the generated reducers by key;
\* a requested name that is no reducer of the adapter is skipped
GeneratedReducers(c) ==
  LET keyOf(r) == actionKey(c.name, r, c.actionNaming)
      commands == Commands(c)
  IN [k \in {keyOf(r) : r \in commands} |->
        [kind |-> "generated", fn |-> CHOOSE r \in commands : keyOf(r) = k]]

\* customReducers written first and the generated reducers over them
Merged_GeneratedLast(c) ==
  LET gen == GeneratedReducers(c)
      keyOf(i) == actionKey(c.name, c.customReducers[i].name, c.actionNaming)
      own == {keyOf(i) : i \in 1..Len(c.customReducers)}
  IN [k \in DOMAIN gen \cup own |->
        IF k \in DOMAIN gen THEN gen[k]
        ELSE [kind |-> "custom",
              fn |-> c.customReducers[CHOOSE i \in 1..Len(c.customReducers) :
                                        keyOf(i) = k].fn]]

\* mergedEntity, mergedArray: the generated reducers, then every entry of
\* customReducers written under its key, in order
Merged(c) ==
  LET RECURSIVE Written(_, _)
      Written(m, i) ==
        IF i > Len(c.customReducers) THEN m
        ELSE Written(Put(m, actionKey(c.name, c.customReducers[i].name, c.actionNaming),
                         [kind |-> "custom", fn |-> c.customReducers[i].fn]),
                     i + 1)
  IN Written(GeneratedReducers(c), 1)

\* the returned actions with the thunks under prefixed keys
Actions_PrefixedThunks(c) ==
  LET thunkKey(d) == actionKey(c.name, d, c.actionNaming)
      thunkKeys == {thunkKey(d) : d \in c.asyncThunks}
      merged == Merged(c)
  IN [k \in DOMAIN merged \cup thunkKeys |->
        IF k \in thunkKeys
        THEN [kind |-> "thunk", fn |-> CHOOSE d \in c.asyncThunks : thunkKey(d) = k]
        ELSE merged[k]]

\* the returned actions: slice.actions, and under asyncThunks
\* { ...slice.actions, ...asyncThunks }
Actions(c) ==
  LET thunkKeys == {Chars(d) : d \in c.asyncThunks}
      merged == Merged(c)
  IN [k \in DOMAIN merged \cup thunkKeys |->
        IF k \in thunkKeys
        THEN [kind |-> "thunk", fn |-> CHOOSE d \in c.asyncThunks : Chars(d) = k]
        ELSE merged[k]]

\* the returned selectors without those of the overlay for the array adapter
Selectors_ArrayWithoutLifecycle(c) ==
  IF c.adapter = "entity"
  THEN IF HasAsync(c)
       THEN {"selectAll", "selectTotal", "selectIds", "selectEntities", "selectById",
             "selectLoading", "selectError", "selectStatus"}
       ELSE {"selectAll", "selectTotal", "selectIds", "selectEntities", "selectById"}
  ELSE {"selectAll", "selectTotal"}

\* the returned selectors, by branch of createAutoSlice
Selectors(c) ==
  IF c.adapter = "entity"
  THEN IF HasAsync(c)
       THEN {"selectAll", "selectTotal", "selectIds", "selectEntities", "selectById",
             "selectLoading", "selectError", "selectStatus"}
       ELSE {"selectAll", "selectTotal", "selectIds", "selectEntities", "selectById"}
  ELSE IF HasAsync(c)
       THEN {"selectAll", "selectTotal", "selectLoading", "selectError", "selectStatus"}
       ELSE {"selectAll", "selectTotal"}

\* selectors.selectLoading, selectors.selectError, selectors.selectStatus;
\* a field the state does not hold reads undefined
SelectLoading(st) == IF "loading" \in DOMAIN st THEN Bool(st.loading) ELSE Undefined
SelectError(st) == IF "error" \in DOMAIN st THEN st.error ELSE Undefined
SelectStatus(st) == IF "status" \in DOMAIN st THEN Str(st.status) ELSE Undefined

\* the caller-written reducers of the configurations, on a collection:
\*   reset: () => []                         double: (s) => s.concat(s)
\*   pop: (s) => { s.pop() }                 unshift: (s, a) => { s.unshift(a.payload) }
\* draft is the state the function leaves behind, result what it returns
CustomArrayReducer(fn, st, p) ==
  CASE fn = "reset" -> [draft |-> st, result |-> Arr(<<>>)]
    [] fn = "double" -> [draft |-> st, result |-> Arr(st \o st)]
    [] fn = "pop" ->
         [draft |-> IF st = <<>> THEN st ELSE SubSeq(st, 1, Len(st) - 1),
          result |-> Undefined]
    [] fn = "unshift" -> [draft |-> <<p>> \o st, result |-> Undefined]

\* the caller-written reducers of the configurations, on an EntityState:
\*   reset: () => getEmptyEntityState()
\*   pop: (s) => { const id = s.ids.pop(); if (id !== undefined) delete s.entities[id] }
\*   unshift: (s, a) => { const id = String(a.payload.id);
\*                        if (!s.ids.includes(id)) s.ids.unshift(id);
\*                        s.entities[id] = a.payload }
CustomEntityReducer(fn, st, p) ==
  CASE fn = "reset" -> [draft |-> st, result |-> Obj(EmptyEntityState)]
    [] fn = "pop" ->
         [draft |-> IF st.ids = <<>> THEN st
                    ELSE [st EXCEPT !.ids = SubSeq(st.ids, 1, Len(st.ids) - 1),
                                    !.entities = Drop(st.entities, {st.ids[Len(st.ids)]})],
          result |-> Undefined]
    [] fn = "unshift" ->
         LET id == toId(Get(p, "id"))
         IN [draft |-> [st EXCEPT !.ids = IF Contains(st.ids, id) THEN st.ids
                                           ELSE <<id>> \o st.ids,
                                  !.entities = Put(st.entities, id, p)],
             result |-> Undefined]

\* wrappedReducers with the returned value dropped
Wrapped_DropResult(st, r) == [st EXCEPT !.data = r.draft]

\* wrappedReducers: result = reducer(state.data, action);
\* if (result !== undefined) state.data = result
Wrapped(st, r) ==
  [st EXCEPT !.data = IF r.result # Undefined THEN r.result.items ELSE r.draft]

\* the case reducer of the slice for the entry b of Merged(c)
CaseReducer(c, b, st, p) ==
  IF b.kind = "generated" THEN SliceReducer(c, b.fn, st, p)
  ELSE IF c.adapter = "entity"
  THEN LET r == CustomEntityReducer(b.fn, st, p)
       IN Ok(IF r.result # Undefined THEN r.result.f ELSE r.draft)
  ELSE IF HasAsync(c)
  THEN Ok(Wrapped(st, CustomArrayReducer(b.fn, st.data, p)))
  ELSE LET r == CustomArrayReducer(b.fn, st, p)
       IN Ok(IF r.result # Undefined THEN r.result.items ELSE r.draft)

----------------------------------------------------------------------------
(* Dispatch.  The store runs one reducer to completion per dispatched      *)
(* action; when the reducer throws, the draft is dropped, the state stays  *)
(* as it was and dispatch raises.                                          *)

\* every number held by a field of an entity of st is at most MaxValue
ValuesWithin(st) ==
  \A key \in DOMAIN st.entities :
    LET e == st.entities[key]
    IN e.k = "object" =>
         \A fld \in DOMAIN e.f : e.f[fld].k = "number" => e.f[fld].n <= MaxValue

\* the state stays within the bounds of the model
Within(c, st) ==
  IF c.adapter = "entity" THEN ValuesWithin(st)
  ELSE Len(SelectAll(c, st)) <= MaxLen

\* dispatch of the generated command op with payload p
Dispatch(op, p) ==
  /\ cfg.track => Len(hist) < MaxOps
  /\ LET r == SliceReducer(cfg, op, state, p)
     IN /\ Within(cfg, r.state)
        /\ state' = r.state
        /\ raised' = r.raised
        /\ hist' = IF cfg.track /\ ~r.raised
                   THEN Append(hist, [op |-> op, p |-> p])
                   ELSE hist
  /\ prev' = state
  /\ last' = [op |-> op, p |-> p, thunk |-> ""]
  /\ UNCHANGED <<cfg, inflight, overlapped>>

Add(p) ==
  /\ "add" \in Commands(cfg)
  /\ Dispatch("add", p)
Remove(p) ==
  /\ "remove" \in Commands(cfg)
  /\ Dispatch("remove", p)
Update(p) ==
  /\ "update" \in Commands(cfg)
  /\ Dispatch("update", p)
Clear(p) ==
  /\ "clear" \in Commands(cfg)
  /\ Dispatch("clear", p)
Set(p) ==
  /\ "set" \in Commands(cfg)
  /\ Dispatch("set", p)
AddMany(p) ==
  /\ "addMany" \in Commands(cfg)
  /\ Dispatch("addMany", p)
RemoveMany(p) ==
  /\ "removeMany" \in Commands(cfg)
  /\ Dispatch("removeMany", p)
Upsert(p) ==
  /\ "upsert" \in Commands(cfg)
  /\ Dispatch("upsert", p)
Increment(p) ==
  /\ "increment" \in Commands(cfg)
  /\ Dispatch("increment", p)
Toggle(p) ==
  /\ "toggle" \in Commands(cfg)
  /\ Dispatch("toggle", p)

\* the tasks in flight, over all thunks
InFlight == LET RECURSIVE Sum(_)
                Sum(S) == IF S = {} THEN 0
                          ELSE LET d == CHOOSE x \in S : TRUE
                               IN inflight[d] + Sum(S \ {d})
            IN Sum(DOMAIN inflight)

\* a task of thunk d starts: thunk.pending is dispatched
Pending(d) ==
  /\ d \in cfg.asyncThunks
  /\ inflight[d] < MaxInflight
  /\ state' = AsyncPending(state)
  /\ inflight' = [inflight EXCEPT ![d] = @ + 1]
  /\ overlapped' = (overlapped \/ InFlight >= 1)
  /\ prev' = state
  /\ last' = [op |-> "pending", p |-> Undefined, thunk |-> d]
  /\ raised' = FALSE
  /\ UNCHANGED <<cfg, hist>>

\* a task of thunk d resolves: thunk.fulfilled is dispatched
Fulfilled(d) ==
  /\ d \in cfg.asyncThunks
  /\ inflight[d] > 0
  /\ state' = AsyncFulfilled(state)
  /\ inflight' = [inflight EXCEPT ![d] = @ - 1]
  /\ prev' = state
  /\ last' = [op |-> "fulfilled", p |-> Undefined, thunk |-> d]
  /\ raised' = FALSE
  /\ UNCHANGED <<cfg, hist, overlapped>>

\* a task of thunk d fails: thunk.rejected is dispatched with action a
Rejected(d, a) ==
  /\ d \in cfg.asyncThunks
  /\ inflight[d] > 0
  /\ state' = AsyncRejected(state, a)
  /\ inflight' = [inflight EXCEPT ![d] = @ - 1]
  /\ prev' = state
  /\ last' = [op |-> "rejected", p |-> a, thunk |-> d]
  /\ raised' = FALSE
  /\ UNCHANGED <<cfg, hist, overlapped>>

\* dispatch of actions[key](p), for a key that holds a command of the slice
Command(key, p) ==
  /\ LET actions == Actions(cfg)
     IN /\ key \in DOMAIN actions
        /\ actions[key].kind # "thunk"
        /\ LET r == CaseReducer(cfg, actions[key], state, p)
           IN /\ Within(cfg, r.state)
              /\ state' = r.state
              /\ raised' = r.raised
  /\ prev' = state
  /\ last' = [op |-> "command", key |-> key, p |-> p, thunk |-> ""]
  /\ UNCHANGED <<cfg, hist, inflight, overlapped>>

----------------------------------------------------------------------------
(* Inputs *)

\* all sequences over S of length at most n
SeqsUpTo(S, n) == UNION {[1..m -> S] : m \in 0..n}

\* entities, with numeric and string ids
E1A == Obj([id |-> Num(1), name |-> Str("A")])
E1sZ == Obj([id |-> Str("1"), name |-> Str("Z")])
EaA == Obj([id |-> Str("a"), name |-> Str("A")])
EaZ == Obj([id |-> Str("a"), name |-> Str("Z")])
EaV == Obj([id |-> Str("a"), value |-> Num(0), active |-> Bool(TRUE)])
NoId == Obj([name |-> Str("A")])
Entities == {E1A, E1sZ, EaA, EaZ}
EntityBatches == {Arr(q) : q \in SeqsUpTo({E1sZ, EaA}, MaxBatch)}

\* payloads of add and upsert of the entity adapter; the last three are
\* malformed: absent, an array holding null, an element without id
EntityAddPayloads ==
  Entities \cup EntityBatches \cup {Undefined, Arr(<<EaA, Null>>), NoId}

\* payloads of remove of the entity adapter
EntityRemovePayloads ==
  {Num(1), Str("a"), Str("b"), Arr(<<Str("1"), Str("a")>>),
   Arr(<<Num(1), Str("b")>>), Arr(<<>>), Undefined}

\* payloads of update of the entity adapter; the last two are malformed
EntityUpdatePayloads ==
  {Obj([id |-> i, changes |-> Obj([name |-> Str("Z")])]) :
     i \in {Num(1), Str("a"), Str("b")}}
  \cup {Obj([id |-> Str("a"), changes |-> Obj([id |-> Str("b")])]), Undefined, Num(5)}

\* payloads of increment
IncrementPayloads ==
  UNION {{Obj([id |-> i]),
          Obj([id |-> i, field |-> Str("name")]),
          Obj([id |-> i, field |-> Str("value"), amount |-> Num(2)])} :
         i \in {Num(1), Str("a"), Str("b")}}
  \cup {Undefined}

\* payloads of toggle
TogglePayloads ==
  UNION {{Obj([id |-> i]),
          Obj([id |-> i, field |-> Str("active")]),
          Obj([id |-> i, field |-> Str("name")])} :
         i \in {Num(1), Str("a"), Str("b")}}
  \cup {Undefined}

\* items of a collection: primitives, null, objects with numeric and string
\* ids, and two objects the caller keeps a reference to (one without id)
I1A == Obj([id |-> Num(1), name |-> Str("A")])
I1sA == Ref(1, [id |-> Str("1"), name |-> Str("A")])
RB == Ref(2, [name |-> Str("B")])
Items == {Num(1), Null, I1A, I1sA, RB}
ItemBatches == {Arr(q) : q \in SeqsUpTo({Num(1), I1A}, MaxBatch)}

\* payloads of remove of the array adapter: values, and objects carrying id
ArrayRemovePayloads ==
  Items \cup {Undefined, Str("1"), Obj([name |-> Str("B")]), Obj([id |-> Num(1)]),
              Obj([id |-> Str("1"), name |-> Str("Z")]), Obj([id |-> Str("b")])}

\* payloads of removeMany of the array adapter: raw values, objects carrying
\* id, mixtures of both, an array holding null, and payloads that are no array
ArrayRemoveManyPayloads ==
  {Arr(<<>>), Arr(<<Num(1)>>), Arr(<<Num(1), Null>>), Arr(<<RB>>),
   Arr(<<Obj([id |-> Num(1)])>>),
   Arr(<<Obj([id |-> Str("1")]), Obj([id |-> Str("b")])>>),
   Arr(<<Num(1), Obj([id |-> Num(1)])>>),
   Arr(<<Obj([id |-> Num(1)]), Num(1)>>),
   Arr(<<Obj([id |-> Num(1)]), Null>>),
   Num(1), I1sA, Undefined}

\* payloads of update of the array adapter, with at from -1 to n
ArrayUpdatePayloads(n) ==
  {Obj([at |-> Num(i), value |-> Num(2)]) : i \in -1..n}
  \cup {Obj([id |-> i, changes |-> Obj([name |-> Str("Z")])]) :
          i \in {Num(1), Str("1"), Str("b")}}
  \cup {Obj([at |-> Num(0), value |-> Num(2), id |-> Num(1),
             changes |-> Obj([name |-> Str("Z")])]),
        Obj([id |-> Undefined, changes |-> Obj([name |-> Str("Z")])]),
        Undefined, Num(5)}

\* payloads of upsert of the array adapter
ArrayUpsertPayloads ==
  {I1A, Obj([id |-> Num(1), name |-> Str("Z")]),
   Obj([id |-> Str("b"), name |-> Str("Z")]), Num(2), Undefined,
   Arr(<<Obj([id |-> Num(1), name |-> Str("Z")]), Obj([id |-> Str("b"), name |-> Str("Z")])>>)}

\* payloads of clear, which reads none
ClearPayloads == {Undefined, Num(1)}

\* payloads of set of the entity adapter: absent, and two EntityStates
SetA == Obj([entities |-> Obj([a |-> EaA]), ids |-> Arr(<<Str("a")>>)])
SetA1 ==
  Obj([entities |-> Obj(("a" :> EaZ) @@ ("1" :> E1A)),
       ids |-> Arr(<<Str("a"), Str("1")>>)])
EntitySetPayloads == {Undefined, Null, SetA, SetA1}

\* the initial state of an empty entity container with the overlay, as the
\* caller reads it from slice.getInitialState()
SetIdle ==
  Obj([entities |-> Obj(NoFields), ids |-> Arr(<<>>), loading |-> Bool(FALSE),
       error |-> Null, status |-> Str("idle")])

\* an EntityState whose ids repeat one key and miss another
SetBad ==
  Obj([entities |-> Obj(("a" :> EaA) @@ ("1" :> E1A)),
       ids |-> Arr(<<Str("a"), Str("a")>>)])

\* payloads of set of the array adapter: absent, and arrays
ArraySetPayloads ==
  {Undefined, Null, Arr(<<>>), Arr(<<I1A>>), Arr(<<Num(1), I1A, Num(1)>>)}

\* the registered thunks
Thunks == {"fetchUsers", "saveUser"}

\* the rejected actions: rejectWithValue("X"), rejectWithValue(""),
\* rejectWithValue(null), a thrown Error, a thrown value without message
RejectedActions ==
  {[payload |-> Str("X"), error |-> Obj([message |-> Str("Rejected")])],
   [payload |-> Str(""), error |-> Obj([message |-> Str("Rejected")])],
   [payload |-> Null, error |-> Obj([message |-> Str("Rejected")])],
   [payload |-> Undefined, error |-> Obj([message |-> Str("boom")])],
   [payload |-> Undefined, error |-> Obj(NoFields)]}

----------------------------------------------------------------------------
(* Specifications *)

\* the state after createAutoSlice(c) and configureStore
InitWith(c) ==
  /\ cfg = c
  /\ state = InitialState(c)
  /\ prev = InitialState(c)
  /\ last = [op |-> "init", p |-> Undefined, thunk |-> ""]
  /\ raised = FALSE
  /\ hist = <<>>
  /\ inflight = [d \in c.asyncThunks |-> 0]
  /\ overlapped = FALSE

EntityConfig ==
  [adapter |-> "entity", initialState |-> EmptyEntityState,
   reducers |-> {"add", "remove", "removeMany", "update", "upsert", "increment",
                 "toggle", "bogus"},
   asyncThunks |-> {}, track |-> FALSE]

\* payloads of add that set up the fields increment and toggle work on
FieldEntities == {EaV, E1A}

ArrayConfig ==
  [adapter |-> "array", initialState |-> <<>>,
   reducers |-> {"add", "addMany", "remove", "removeMany", "update", "upsert",
                 "clear", "toggle"},
   asyncThunks |-> {}, track |-> FALSE]

\* an entity container without overlay, from the empty state
InitEntity == InitWith(EntityConfig)

NextEntity ==
  \/ \E p \in EntityAddPayloads : Add(p)
  \/ \E p \in EntityAddPayloads : Upsert(p)
  \/ \E p \in EntityRemovePayloads : Remove(p)
  \/ \E p \in EntityRemovePayloads : RemoveMany(p)
  \/ \E p \in EntityUpdatePayloads : Update(p)

SpecEntity == InitEntity /\ [][NextEntity]_vars

\* the same container, driven by add, remove, increment and toggle
NextFields ==
  \/ \E p \in FieldEntities : Add(p)
  \/ \E p \in {Str("a"), Num(1)} : Remove(p)
  \/ \E p \in IncrementPayloads : Increment(p)
  \/ \E p \in TogglePayloads : Toggle(p)

SpecFields == InitEntity /\ [][NextFields]_vars

\* a collection container without overlay, from the empty collection
InitArray == InitWith(ArrayConfig)

NextArray ==
  \/ \E p \in Items : Add(p)
  \/ \E p \in ItemBatches \cup {Undefined} : AddMany(p)
  \/ \E p \in ArrayRemovePayloads : Remove(p)
  \/ \E p \in ArrayRemoveManyPayloads : RemoveMany(p)
  \/ \E p \in ArrayUpdatePayloads(MaxLen) : Update(p)
  \/ \E p \in ArrayUpsertPayloads : Upsert(p)
  \/ \E p \in {Undefined} : Clear(p)

SpecArray == InitArray /\ [][NextArray]_vars

\* a collection container driven by add and addMany alone, the calls recorded
InitAdds ==
  InitWith([adapter |-> "array", initialState |-> <<>>,
            reducers |-> {"add", "addMany"}, asyncThunks |-> {}, track |-> TRUE])

NextAdds ==
  \/ \E p \in Items \cup {Undefined} : Add(p)
  \/ \E p \in ItemBatches \cup {Undefined} : AddMany(p)

SpecAdds == InitAdds /\ [][NextAdds]_vars

\* an entity container driven by add, upsert and remove, the calls recorded
InitEntityHist ==
  InitWith([adapter |-> "entity", initialState |-> EmptyEntityState,
            reducers |-> {"add", "upsert", "remove"}, asyncThunks |-> {},
            track |-> TRUE])

HistEntities == Entities \cup {Arr(<<E1sZ, EaA>>), Arr(<<EaA, EaZ>>)}
HistIds == {Num(1), Str("a"), Str("b"), Arr(<<Str("1"), Str("a")>>)}

NextEntityHist ==
  \/ \E p \in HistEntities : Add(p)
  \/ \E p \in HistEntities : Upsert(p)
  \/ \E p \in HistIds : Remove(p)

SpecEntityHist == InitEntityHist /\ [][NextEntityHist]_vars

\* a container of either kind with the lifecycle overlay, driven by the
\* notifications of its thunks
InitAsync ==
  \E a \in {"entity", "array"} :
    InitWith([adapter |-> a,
              initialState |-> IF a = "entity" THEN EmptyEntityState ELSE <<>>,
              reducers |-> {}, asyncThunks |-> Thunks, track |-> FALSE])

NextAsync ==
  \/ \E d \in Thunks : Pending(d)
  \/ \E d \in Thunks : Fulfilled(d)
  \/ \E d \in Thunks, a \in RejectedActions : Rejected(d, a)

SpecAsync == InitAsync /\ [][NextAsync]_vars

\* a container of either kind, with or without the lifecycle overlay, driven
\* by add, clear and set and by the notifications of its thunk
InitReset ==
  \E a \in {"entity", "array"}, t \in {{}, {"fetchUsers"}} :
    InitWith([adapter |-> a,
              initialState |-> IF a = "entity" THEN EmptyEntityState ELSE <<>>,
              reducers |-> {"add", "clear", "set"}, asyncThunks |-> t,
              track |-> FALSE])

NextReset ==
  \/ \E p \in {E1A, EaA} : cfg.adapter = "entity" /\ Add(p)
  \/ \E p \in {Num(1), I1A} : cfg.adapter = "array" /\ Add(p)
  \/ \E p \in ClearPayloads : Clear(p)
  \/ \E p \in EntitySetPayloads : cfg.adapter = "entity" /\ Set(p)
  \/ \E p \in ArraySetPayloads : cfg.adapter = "array" /\ Set(p)
  \/ \E d \in Thunks : Pending(d)
  \/ \E d \in Thunks : Fulfilled(d)
  \/ \E d \in Thunks, a \in RejectedActions : Rejected(d, a)

SpecReset == InitReset /\ [][NextReset]_vars

\* an entity container without overlay, started empty or from one entity,
\* driven by the whole vocabulary of the kind
InitVocabulary ==
  \E s \in {EmptyEntityState, AsEntityState(SetA)} :
    InitWith([adapter |-> "entity", initialState |-> s,
              reducers |-> ENTITY_REDUCERS, asyncThunks |-> {}, track |-> FALSE])

NextVocabulary ==
  \/ \E p \in {E1A, EaV, NoId, Undefined} : Add(p)
  \/ \E p \in {E1sZ, Arr(<<EaA, E1A>>)} : Upsert(p)
  \/ \E p \in {Arr(<<EaA, E1sZ>>), Arr(<<EaA, EaZ>>), Undefined, Num(5)} : AddMany(p)
  \/ \E p \in {Num(1), Str("a"), Undefined} : Remove(p)
  \/ \E p \in {Arr(<<Str("1"), Str("b")>>), Str("a")} : RemoveMany(p)
  \/ \E p \in {Obj([id |-> Str("a"), changes |-> Obj([name |-> Str("Z")])]),
               Obj([id |-> Num(1), changes |-> Obj([id |-> Str("b")])]),
               Undefined} : Update(p)
  \/ \E p \in ClearPayloads : Clear(p)
  \/ \E p \in EntitySetPayloads \cup {SetBad} : Set(p)
  \/ \E p \in {Obj([id |-> Str("a")]), Undefined} : Increment(p)
  \/ \E p \in {Obj([id |-> Str("a"), field |-> Str("active")]), Undefined} : Toggle(p)

SpecVocabulary == InitVocabulary /\ [][NextVocabulary]_vars

\* a container of either kind with the lifecycle overlay, driven by the
\* whole vocabulary of its kind and by the notifications of one thunk
InitOverlay ==
  \E a \in {"entity", "array"} :
    InitWith([adapter |-> a,
              initialState |-> IF a = "entity" THEN EmptyEntityState ELSE <<>>,
              reducers |-> ENTITY_REDUCERS, asyncThunks |-> {"fetchUsers"},
              track |-> FALSE])

\* the payloads of a command under the overlay, by kind
OverlayPayloads(kind, op) ==
  IF kind = "entity"
  THEN CASE op = "add" -> {EaV, E1A}
         [] op = "upsert" -> {E1sZ}
         [] op = "addMany" -> {Arr(<<EaA, E1sZ>>)}
         [] op = "remove" -> {Str("a")}
         [] op = "removeMany" -> {Arr(<<Str("1")>>)}
         [] op = "update" -> {Obj([id |-> Str("a"), changes |-> Obj([name |-> Str("Z")])])}
         [] op = "set" -> {Undefined, SetA, SetIdle}
         [] op = "increment" -> {Obj([id |-> Str("a")])}
         [] op = "toggle" -> {Obj([id |-> Str("a"), field |-> Str("active")])}
         [] OTHER -> {Undefined}
  ELSE CASE op = "add" -> {Num(1), I1A}
         [] op = "upsert" -> {Obj([id |-> Num(1), name |-> Str("Z")])}
         [] op = "addMany" -> {Arr(<<Num(1), I1A>>)}
         [] op = "remove" -> {Num(1), Obj([id |-> Num(1)])}
         [] op = "removeMany" -> {Arr(<<Num(1)>>)}
         [] op = "update" -> {Obj([at |-> Num(0), value |-> Num(2)]),
                              Obj([id |-> Num(1), changes |-> Obj([name |-> Str("Z")])])}
         [] op = "set" -> {Undefined, Arr(<<I1A>>)}
         [] OTHER -> {Undefined}

\* the kinds of container
Kinds == {"entity", "array"}

NextOverlay ==
  \/ \E k \in Kinds : \E p \in OverlayPayloads(k, "add") : cfg.adapter = k /\ Add(p)
  \/ \E k \in Kinds : \E p \in OverlayPayloads(k, "upsert") : cfg.adapter = k /\ Upsert(p)
  \/ \E k \in Kinds : \E p \in OverlayPayloads(k, "addMany") : cfg.adapter = k /\ AddMany(p)
  \/ \E k \in Kinds : \E p \in OverlayPayloads(k, "remove") : cfg.adapter = k /\ Remove(p)
  \/ \E k \in Kinds : \E p \in OverlayPayloads(k, "removeMany") : cfg.adapter = k /\ RemoveMany(p)
  \/ \E k \in Kinds : \E p \in OverlayPayloads(k, "update") : cfg.adapter = k /\ Update(p)
  \/ \E k \in Kinds : \E p \in OverlayPayloads(k, "clear") : cfg.adapter = k /\ Clear(p)
  \/ \E k \in Kinds : \E p \in OverlayPayloads(k, "set") : cfg.adapter = k /\ Set(p)
  \/ \E k \in Kinds : \E p \in OverlayPayloads(k, "increment") : cfg.adapter = k /\ Increment(p)
  \/ \E k \in Kinds : \E p \in OverlayPayloads(k, "toggle") : cfg.adapter = k /\ Toggle(p)
  \/ \E d \in Thunks : Pending(d)
  \/ \E d \in Thunks : Fulfilled(d)
  \/ \E d \in Thunks, a \in RejectedActions : Rejected(d, a)

SpecOverlay == InitOverlay /\ [][NextOverlay]_vars


\* the requested names, the custom reducers and the thunks the assembled
\* configurations choose from
Requests == {{}, {"bogus", "toggle"}, {"add", "clear"}, {"add", "toggle", "bogus"}}
Customs(a) ==
  {<<>>,
   <<[name |-> "add", fn |-> "unshift"]>>,
   <<[name |-> "Add", fn |-> "unshift"]>>,
   IF a = "entity"
   THEN <<[name |-> "reset", fn |-> "reset"], [name |-> "pop", fn |-> "pop"]>>
   ELSE <<[name |-> "reset", fn |-> "reset"], [name |-> "double", fn |-> "double"],
          [name |-> "pop", fn |-> "pop"]>>}
Namings == {"absent", "short", "prefixed"}

\* the configurations createAutoSlice is called with
AssemblyConfigs ==
  UNION {{[adapter |-> a, name |-> "items", actionNaming |-> m,
           initialState |-> IF a = "entity" THEN EmptyEntityState ELSE <<>>,
           reducers |-> rs, customReducers |-> cs, asyncThunks |-> ts,
           track |-> FALSE] :
            m \in Namings, rs \in Requests, cs \in Customs(a),
            ts \in {{}, {"fetchUsers"}}} :
         a \in Kinds}

\* every key some configuration has a command or a thunk under
Keys == UNION {DOMAIN Actions(c) : c \in AssemblyConfigs}

\* a container assembled from any of the configurations, driven through the
\* keys of its actions and by the notifications of its thunks
InitAssembly == \E c \in AssemblyConfigs : InitWith(c)

NextAssembly ==
  \/ \E key \in Keys, p \in {E1A, EaA} : Command(key, p)
  \/ \E d \in Thunks : Pending(d)
  \/ \E d \in Thunks : Fulfilled(d)
  \/ \E d \in Thunks :
       Rejected(d, [payload |-> Str("X"), error |-> Obj([message |-> Str("Rejected")])])

SpecAssembly == InitAssembly /\ [][NextAssembly]_vars


\* a collection with the overlay, the whole vocabulary and three custom
\* reducers, under short and prefixed keys, driven through its keys and by the
\* notifications of its thunk
InitWrapped ==
  \E m \in {"short", "prefixed"} :
    InitWith([adapter |-> "array", name |-> "items", actionNaming |-> m,
              initialState |-> <<>>, reducers |-> ARRAY_REDUCERS,
              customReducers |-> <<[name |-> "reset", fn |-> "reset"],
                                   [name |-> "double", fn |-> "double"],
                                   [name |-> "pop", fn |-> "pop"]>>,
              asyncThunks |-> {"fetchUsers"}, track |-> FALSE])

NextWrapped ==
  \/ \E op \in ARRAY_REDUCERS :
       \E p \in OverlayPayloads("array", op) :
         Command(actionKey(cfg.name, op, cfg.actionNaming), p)
  \/ \E fn \in {"reset", "double", "pop"} :
       Command(actionKey(cfg.name, fn, cfg.actionNaming), Undefined)
  \/ \E d \in Thunks : Pending(d)
  \/ \E d \in Thunks : Fulfilled(d)
  \/ \E d \in Thunks :
       Rejected(d, [payload |-> Str("X"), error |-> Obj([message |-> Str("Rejected")])])

SpecWrapped == InitWrapped /\ [][NextWrapped]_vars


\* SpecAsync with every task that was started delivering its succeeded or
\* its failed notification in the end
SpecSettle ==
  /\ SpecAsync
  /\ \A d \in Thunks :
       WF_vars(Fulfilled(d) \/ \E a \in RejectedActions : Rejected(d, a))


\* any of the containers above, driven by the commands of its kind and by
\* the notifications of its thunks
Init == InitEntity \/ InitArray \/ InitAsync

Next ==
  \/ cfg.adapter = "entity" /\ NextEntity
  \/ cfg.adapter = "array" /\ NextArray
  \/ NextAsync

Spec == Init /\ [][Next]_vars

----------------------------------------------------------------------------
(* Claims *)

NoDuplicates(seq) == \A i, j \in 1..Len(seq) : seq[i] = seq[j] => i = j
Members(seq) == {seq[i] : i \in 1..Len(seq)}

\* the normalized id of a payload that is one element
IdOf(p) == toId(Get(p, "id"))

Lifecycle(st) == <<st.loading, st.error, st.status>>

\* C2: under every interleaving of the notifications of the thunks, the
\* lifecycle fields after a notification are those the notification alone
\* determines, whatever the state before and whichever thunk sent it:
\* pending gives (true, null, 'pending'), fulfilled (false, null,
\* 'fulfilled'), rejected with the explicit reason X (false, X, 'rejected').
C2_NotificationDeterminesFields ==
  /\ last.op = "pending" => Lifecycle(state) = <<TRUE, Null, "pending">>
  /\ last.op = "fulfilled" => Lifecycle(state) = <<FALSE, Null, "fulfilled">>
  /\ (last.op = "rejected" /\ ~Nullish(last.p.payload)) =>
       Lifecycle(state) = <<FALSE, last.p.payload, "rejected">>

\* C2 witness: a task started while the failure of another thunk's task was
\* still recorded and a third task was in flight.
C2_Witness ==
  /\ last.op = "pending"
  /\ prev.status = "rejected"
  /\ prev.error = Str("X")
  /\ InFlight = 2
  /\ \E d \in Thunks : d # last.thunk /\ inflight[d] = 1

Edge == <<prev.status, state.status>>
SerialEdges ==
  {<<"idle", "pending">>, <<"pending", "fulfilled">>, <<"pending", "rejected">>,
   <<"fulfilled", "pending">>, <<"rejected", "pending">>}
OverlapEdges == {<<"fulfilled", "rejected">>, <<"rejected", "fulfilled">>}

\* C4 as claimed: status only changes along idle->pending,
\* pending->fulfilled, pending->rejected, fulfilled->pending and
\* rejected->pending, under every interleaving of notifications.
C4_StatusEdges == state.status # prev.status => Edge \in SerialEdges

\* C4 as amended: status only changes along those five edges and, once
\* tasks have overlapped, along fulfilled->rejected and rejected->fulfilled.
C4_StatusEdgesWithOverlap ==
  state.status # prev.status =>
    \/ Edge \in SerialEdges
    \/ overlapped /\ Edge \in OverlapEdges

\* C4 witness: the second of two overlapping tasks fails after the first
\* has succeeded.
C4_Witness ==
  /\ last.op = "rejected"
  /\ prev.status = "fulfilled"
  /\ state.status = "rejected"
  /\ InFlight = 0


\* the id field of a collection element, undefined when it carries none
IdField(item) ==
  IF item.k = "object" /\ "id" \in DOMAIN item.f THEN item.f.id ELSE Undefined

\* what remove(p) is to keep of a collection, by the claim
C5_Keeps(item, p) ==
  IF p.k = "object" /\ "id" \in DOMAIN p.f
  THEN IdField(item) # p.f.id
  ELSE ~StrictEq(item, p)

\* the elements of seq that remove(p) is to keep, in their order
RECURSIVE C5_Kept(_, _)
C5_Kept(seq, p) ==
  IF seq = <<>> THEN <<>>
  ELSE (IF C5_Keeps(Head(seq), p) THEN <<Head(seq)>> ELSE <<>>) \o C5_Kept(Tail(seq), p)

\* C5: for every collection and payload, remove(v) with v not an object
\* carrying id yields the elements not strictly equal to v, in order;
\* remove({id: x}) yields the elements whose id field is not x, in order.
C5_RemoveFilters ==
  (cfg.adapter = "array" /\ last.op = "remove") =>
    ~raised /\ state = C5_Kept(prev, last.p)

\* C5 on the collections that hold neither null nor undefined
C5_RemoveFiltersNullFree ==
  (cfg.adapter = "array" /\ last.op = "remove"
     /\ \A i \in 1..Len(prev) : ~Nullish(prev[i])) =>
    ~raised /\ state = C5_Kept(prev, last.p)


\* the elements a recorded history of add and addMany calls pushed, in call
\* order
RECURSIVE C6_Pushed(_)
C6_Pushed(h) ==
  IF h = <<>> THEN <<>>
  ELSE LET c == h[Len(h)]
           rest == C6_Pushed(SubSeq(h, 1, Len(h) - 1))
       IN CASE c.op = "add" -> Append(rest, c.p)
            [] c.op = "addMany" /\ c.p.k = "array" -> rest \o c.p.items
            [] OTHER -> rest

\* C6: add(x) appends x as the last element and addMany(xs) appends xs in
\* order, the existing elements staying as they are; so after N add calls
\* from the empty collection selectAll is the N payloads in call order,
\* duplicates kept, and selectTotal is N.
C6_AddAppends ==
  /\ last.op = "add" =>
       /\ Len(state) = Len(prev) + 1
       /\ state[Len(state)] = last.p
       /\ \A i \in 1..Len(prev) : state[i] = prev[i]
  /\ (last.op = "addMany" /\ last.p.k = "array") =>
       /\ Len(state) = Len(prev) + Len(last.p.items)
       /\ \A i \in 1..Len(prev) : state[i] = prev[i]
       /\ \A i \in 1..Len(last.p.items) : state[Len(prev) + i] = last.p.items[i]
  /\ SelectAll(cfg, state) = C6_Pushed(hist)
  /\ (\A i \in 1..Len(hist) : hist[i].op = "add") =>
       /\ SelectAll(cfg, state) = [i \in 1..Len(hist) |-> hist[i].p]
       /\ SelectTotal(cfg, state) = Len(hist)

\* C6 witness: three add calls, the third repeating the payload of the first.
C6_Witness ==
  /\ Len(hist) = 3
  /\ \A i \in 1..3 : hist[i].op = "add"
  /\ hist[1].p = hist[3].p
  /\ hist[1].p # hist[2].p
  /\ SelectTotal(cfg, state) = 3


Least(S) == CHOOSE i \in S : \A j \in S : i <= j

\* the collection after upsert of one element e carrying an id, by the
\* claim: e takes the place of the first element with that id, or goes last
C7_CollectionOne(seq, e) ==
  LET hits == {i \in 1..Len(seq) : IdField(seq[i]) = e.f.id}
  IN IF hits = {} THEN Append(seq, e) ELSE [seq EXCEPT ![Least(hits)] = e]

\* the entity state after upsert of one entity e, by the claim: e is mapped
\* under its id, which goes last in ids when it is new
C7_EntityOne(st, e) ==
  LET key == toId(e.f.id)
  IN IF key \in DOMAIN st.entities
     THEN [st EXCEPT !.entities = [@ EXCEPT ![key] = e]]
     ELSE [st EXCEPT !.entities = [x \in DOMAIN @ \cup {key} |->
                                     IF x = key THEN e ELSE @[x]],
                     !.ids = Append(@, key)]

\* the items of a payload applied one by one, in order
RECURSIVE C7_InOrder(_, _, _)
C7_InOrder(kind, st, items) ==
  IF items = <<>> THEN st
  ELSE C7_InOrder(kind,
                  IF kind = "entity" THEN C7_EntityOne(st, Head(items))
                  ELSE C7_CollectionOne(st, Head(items)),
                  Tail(items))

\* the payload is one element, or an array of elements, each carrying an id
C7_Applies(p) ==
  \A i \in 1..Len(AsItems(p)) :
    AsItems(p)[i].k = "object" /\ "id" \in DOMAIN AsItems(p)[i].f

\* C7: upsert of an element whose id exists replaces that element in place
\* (collection: same index, same length; entity kind: ids unchanged, only
\* the mapped element changes); upsert of a new id appends the element
\* (collection) or its id (entity kind); an array payload is applied item
\* by item in order.
C7_UpsertInPlaceOrAppend ==
  (last.op = "upsert" /\ C7_Applies(last.p)) =>
    ~raised /\ state = C7_InOrder(cfg.adapter, prev, AsItems(last.p))

\* C7 on the collections that hold neither null nor undefined, and on the
\* entity kind
C7_UpsertNullFree ==
  (last.op = "upsert" /\ C7_Applies(last.p)
     /\ (cfg.adapter = "array" => \A i \in 1..Len(prev) : ~Nullish(prev[i]))) =>
    ~raised /\ state = C7_InOrder(cfg.adapter, prev, AsItems(last.p))


\* a recorded history of add, upsert and remove calls as a sequence of
\* events: one put per element of an add or upsert, one del per remove
RECURSIVE C8_Events(_)
C8_Events(h) ==
  IF h = <<>> THEN <<>>
  ELSE LET c == Head(h)
           items == AsItems(c.p)
       IN (IF c.op = "remove"
           THEN <<[t |-> "del", keys |-> {toId(items[i]) : i \in 1..Len(items)}]>>
           ELSE [i \in 1..Len(items) |->
                   [t |-> "put", keys |-> {IdOf(items[i])}, e |-> items[i]]])
          \o C8_Events(Tail(h))

\* the puts of key x since x was last removed
C8_Live(ev, x) ==
  {i \in 1..Len(ev) :
     /\ ev[i].t = "put" /\ x \in ev[i].keys
     /\ \A j \in i..Len(ev) : ~(ev[j].t = "del" /\ x \in ev[j].keys)}

Greatest(S) == CHOOSE i \in S : \A j \in S : j <= i

\* the keys present after ev, in the order of their first put since absent
C8_Present(ev) == {x \in UNION {ev[i].keys : i \in 1..Len(ev)} : C8_Live(ev, x) # {}}
C8_Order(ev) ==
  LET n == Cardinality(C8_Present(ev))
  IN CHOOSE s \in [1..n -> C8_Present(ev)] :
       \A i, j \in 1..n : i < j => Least(C8_Live(ev, s[i])) < Least(C8_Live(ev, s[j]))

\* the element last put under x, undefined when x is absent
C8_ById(ev, x) ==
  IF C8_Live(ev, x) = {} THEN Undefined ELSE ev[Greatest(C8_Live(ev, x))].e

C9_Malformed(kind, op, p) ==
  CASE kind = "entity" /\ op \in {"add", "upsert", "addMany"} -> ~C7_Applies(p)
    [] kind = "entity" /\ op \in {"remove", "removeMany"} -> Nullish(p)
    [] op = "update" /\ kind = "entity" -> ~(In("id", p) /\ In("changes", p))
    [] op = "update" /\ kind = "array" ->
         ~(In("at", p) \/ (In("id", p) /\ In("changes", p)))
    [] op \in {"increment", "toggle"} -> ~In("id", p)
    [] kind = "array" /\ op = "addMany" -> p.k # "array"
    [] OTHER -> FALSE

\* C9: no generated command of either kind ever raises, whatever the state
\* and the payload, and a malformed payload leaves the state as it was.
C9_TotalAndNoOpOnMalformed ==
  /\ ~raised
  /\ (last.op \in Commands(cfg) /\ C9_Malformed(cfg.adapter, last.op, last.p)) =>
       state = prev

\* the field increment or toggle is aimed at
C10_Field(p) == IF In("field", p) THEN p.f.field.s ELSE "value"

\* the cases C10 lists
C10_Case ==
  \/ /\ cfg.adapter = "array" /\ last.op = "update"
     /\ In("at", last.p) /\ last.p.f.at.k = "number"
     /\ (last.p.f.at.n < 0 \/ last.p.f.at.n >= Len(prev))
  \/ /\ cfg.adapter = "array" /\ last.op = "update"
     /\ ~In("at", last.p) /\ In("id", last.p) /\ In("changes", last.p)
     /\ \A i \in 1..Len(prev) : IdField(prev[i]) # last.p.f.id
  \/ /\ cfg.adapter = "entity" /\ last.op \in {"update", "increment", "toggle"}
     /\ In("id", last.p)
     /\ IdOf(last.p) \notin DOMAIN prev.entities
  \/ /\ cfg.adapter = "entity" /\ last.op = "increment"
     /\ In("id", last.p) /\ IdOf(last.p) \in DOMAIN prev.entities
     /\ LET e == prev.entities[IdOf(last.p)]
        IN ~In(C10_Field(last.p), e) \/ e.f[C10_Field(last.p)].k # "number"
  \/ /\ cfg.adapter = "entity" /\ last.op = "toggle"
     /\ In("id", last.p) /\ IdOf(last.p) \in DOMAIN prev.entities
     /\ LET e == prev.entities[IdOf(last.p)]
        IN ~In(C10_Field(last.p), e) \/ e.f[C10_Field(last.p)].k # "boolean"

\* C10: collection update({at, value}) with at out of range, update({id,
\* changes}) of either kind when no element has that id, increment or toggle
\* when no entity has that id or when the field is absent or not a number
\* (not a boolean), each leave the state unchanged and raise nothing.
C10_NoOpCases == C10_Case => (~raised /\ state = prev)

\* C10 on the collections that hold neither null nor undefined, and on the
\* entity kind
C10_NoOpCasesNullFree ==
  (C10_Case /\ (cfg.adapter = "array" => \A i \in 1..Len(prev) : ~Nullish(prev[i])))
    => (~raised /\ state = prev)


\* a value is present when it is neither undefined nor null
C11_Present(v) == v.k \notin {"undefined", "null"}

\* the failure reason of a rejected action, by the claim
C11_Reason(a) ==
  IF C11_Present(a.payload) THEN a.payload
  ELSE IF a.error.k = "object" /\ "message" \in DOMAIN a.error.f
          /\ C11_Present(a.error.f.message)
       THEN a.error.f.message
       ELSE Str("Request failed")

\* C11: after a rejected notification error is the rejection value
\* (action.payload) if present, else the message of the failure object
\* (action.error.message) if present, else 'Request failed'; in all three
\* cases loading is false, status is 'rejected' and nothing is raised.
C11_ReasonByPrecedence ==
  last.op = "rejected" =>
    /\ ~raised
    /\ state.error = C11_Reason(last.p)
    /\ state.loading = FALSE
    /\ state.status = "rejected"

\* C11 witness: a task fails with neither a rejection value nor a message,
\* after the failure of another task had recorded its rejection value.
C11_Witness ==
  /\ last.op = "rejected"
  /\ last.p.payload = Undefined
  /\ ~In("message", last.p.error)
  /\ prev.error = Str("X")
  /\ state.error = Str("Request failed")


\* the identifiers 1 and "1" among the items of a payload
C12_One == {Num(1), Str("1")}

\* C12: in an entity container every identifier is turned into its string
\* before it is used as key of entities, as member of ids or as lookup key:
\* 1 and "1" are the same entity.  After add of an element with id 1 or "1"
\* there is exactly one entry under "1", the element just added; remove(1)
\* and remove("1") both leave no entry under "1"; selectById(1) equals
\* selectById("1") in every state.
C12_OneAndItsStringAreTheSame ==
  /\ (last.op = "add" /\ ~raised /\ last.p.k = "object" /\ In("id", last.p)
        /\ last.p.f.id \in C12_One) =>
       /\ "1" \in DOMAIN state.entities
       /\ state.entities["1"] = last.p
       /\ Cardinality({i \in 1..Len(state.ids) : state.ids[i] = "1"}) = 1
       /\ DOMAIN state.entities \subseteq DOMAIN prev.entities \cup {"1"}
  /\ (last.op = "remove" /\ \E i \in 1..Len(AsItems(last.p)) :
                            AsItems(last.p)[i] \in C12_One) =>
       /\ "1" \notin DOMAIN state.entities
       /\ \A i \in 1..Len(state.ids) : state.ids[i] # "1"
  /\ EntitySelectById(state, Num(1)) = EntitySelectById(state, Str("1"))
  /\ \A x \in DOMAIN state.entities : x \in STRING
  /\ \A i \in 1..Len(state.ids) : state.ids[i] \in STRING

\* C12 witness: an element with id "1" is added where an element with id 1
\* was stored, next to another entity; one entry under "1" remains.
C12_Witness ==
  /\ last.op = "add"
  /\ last.p = E1sZ
  /\ "1" \in DOMAIN prev.entities
  /\ prev.entities["1"] = E1A
  /\ Len(prev.ids) = 2
  /\ state.ids = prev.ids
  /\ EntitySelectById(state, Num(1)) = E1sZ


\* the identifiers of a payload of remove: one identifier, or an array
C13_Keys(p) ==
  LET items == IF p.k = "array" THEN p.items ELSE <<p>>
  IN {toId(items[i]) : i \in 1..Len(items)}

\* the ids of seq that are not in keys, in their order
RECURSIVE C13_Rest(_, _)
C13_Rest(seq, keys) ==
  IF seq = <<>> THEN <<>>
  ELSE (IF Head(seq) \in keys THEN <<>> ELSE <<Head(seq)>>) \o C13_Rest(Tail(seq), keys)

\* C13: in an entity container remove and removeMany, with one identifier
\* or an array of identifiers, delete exactly the entries whose normalized
\* id is in the payload and exactly those ids from ids; the remaining ids
\* keep their order, the remaining entities stay as they were, and
\* identifiers that are not present are ignored.
C13_RemoveDeletesExactly ==
  (cfg.adapter = "entity" /\ last.op \in {"remove", "removeMany"}) =>
    /\ ~raised
    /\ DOMAIN state.entities = DOMAIN prev.entities \ C13_Keys(last.p)
    /\ \A x \in DOMAIN state.entities : state.entities[x] = prev.entities[x]
    /\ state.ids = C13_Rest(prev.ids, C13_Keys(last.p))

\* C13 witness: removeMany([1, "b"]) on three entities, the second stored
\* under "1" and none under "b": the first and the third remain, in order.
C13_Witness ==
  /\ last.op = "removeMany"
  /\ last.p = Arr(<<Num(1), Str("b")>>)
  /\ Len(prev.ids) = 3
  /\ prev.ids[2] = "1"
  /\ state.ids = <<prev.ids[1], prev.ids[3]>>


\* {...e, ...changes} for an object e, by the claim: the fields of changes
\* over those of e
C14_Merged(e, changes) ==
  LET c == IF changes.k = "object" THEN changes.f ELSE NoFields
  IN [x \in DOMAIN e.f \cup DOMAIN c |-> IF x \in DOMAIN c THEN c[x] ELSE e.f[x]]

\* the collection after update(p), by the claim
C14_Updated(seq, p) ==
  IF p.k # "object" THEN seq
  ELSE IF "at" \in DOMAIN p.f /\ p.f.at.k = "number"
  THEN IF p.f.at.n >= 0 /\ p.f.at.n < Len(seq)
       THEN [i \in 1..Len(seq) |->
               IF i = p.f.at.n + 1
               THEN (IF "value" \in DOMAIN p.f THEN p.f.value ELSE Undefined)
               ELSE seq[i]]
       ELSE seq
  ELSE IF "id" \in DOMAIN p.f /\ "changes" \in DOMAIN p.f
  THEN LET hits == {i \in 1..Len(seq) : IdField(seq[i]) = p.f.id}
       IN IF hits # {} /\ seq[Least(hits)].k = "object"
          THEN [i \in 1..Len(seq) |->
                  IF i = Least(hits)
                  THEN Obj(C14_Merged(seq[i], p.f.changes))
                  ELSE seq[i]]
          ELSE seq
  ELSE seq

\* C14: collection update({at, value}) with a number at replaces the element
\* at index at when 0 <= at < length and leaves every other element (this
\* form wins when the payload also carries id and changes); update({id,
\* changes}) replaces the first element whose id is id by its shallow merge
\* with changes, only if that element is a non-null object; length and order
\* never change under update.
C14_UpdateReplaces ==
  (cfg.adapter = "array" /\ last.op = "update") =>
    /\ Len(state) = Len(prev)
    /\ state = C14_Updated(prev, last.p)

\* C14 on the collections that hold neither null nor undefined
C14_UpdateReplacesNullFree ==
  (cfg.adapter = "array" /\ last.op = "update"
     /\ \A i \in 1..Len(prev) : ~Nullish(prev[i])) =>
    /\ ~raised
    /\ Len(state) = Len(prev)
    /\ state = C14_Updated(prev, last.p)


\* C15: in an entity container update({id, changes}) on an existing entity
\* replaces exactly the top-level fields named in changes by the values of
\* changes and leaves every other field of that entity, every other entity
\* and ids as they were.
C15_UpdateMergesNamedFields ==
  (cfg.adapter = "entity" /\ last.op = "update"
     /\ In("id", last.p) /\ In("changes", last.p) /\ last.p.f.changes.k = "object"
     /\ IdOf(last.p) \in DOMAIN prev.entities) =>
    LET key == IdOf(last.p)
        changes == last.p.f.changes.f
        before == prev.entities[key].f
        after == state.entities[key].f
    IN /\ ~raised
       /\ state.ids = prev.ids
       /\ DOMAIN state.entities = DOMAIN prev.entities
       /\ \A x \in DOMAIN prev.entities \ {key} : state.entities[x] = prev.entities[x]
       /\ DOMAIN after = DOMAIN before \cup DOMAIN changes
       /\ \A x \in DOMAIN changes : after[x] = changes[x]
       /\ \A x \in DOMAIN before \ DOMAIN changes : after[x] = before[x]

\* C15 witness: the name of the entity stored under "a" is changed, its id
\* kept, next to another entity.
C15_Witness ==
  /\ last.op = "update"
  /\ last.p = Obj([id |-> Str("a"), changes |-> Obj([name |-> Str("Z")])])
  /\ Len(prev.ids) = 2
  /\ "a" \in DOMAIN prev.entities
  /\ prev.entities["a"] = EaA
  /\ state.entities["a"].f = [id |-> Str("a"), name |-> Str("Z")]


\* the first item of the payload is an object carrying a string or a number
\* as id
C16_IsIds(arr) ==
  /\ Len(arr) > 0
  /\ arr[1].k = "object"
  /\ "id" \in DOMAIN arr[1].f
  /\ arr[1].f.id.k \in {"string", "number"}

\* what removeMany is to keep of a collection, by the claim
C16_Keeps(item, arr) ==
  IF C16_IsIds(arr)
  THEN toId(IdField(item)) \notin {toId(IdField(arr[i])) : i \in 1..Len(arr)}
  ELSE \A i \in 1..Len(arr) : ~StrictEq(item, arr[i])

RECURSIVE C16_Kept(_, _)
C16_Kept(seq, arr) ==
  IF seq = <<>> THEN <<>>
  ELSE (IF C16_Keeps(Head(seq), arr) THEN <<Head(seq)>> ELSE <<>>)
       \o C16_Kept(Tail(seq), arr)

\* C16: collection removeMany: when the first item of the payload is an
\* object carrying an id, every element whose id, as a string, is among the
\* ids of the payload items, as strings, is dropped; otherwise every element
\* equal to one of the payload items is dropped.  The remaining elements
\* keep their order and an empty payload changes nothing.
C16_RemoveManyDrops ==
  (cfg.adapter = "array" /\ last.op = "removeMany" /\ last.p.k = "array") =>
    /\ state = C16_Kept(prev, last.p.items)
    /\ last.p.items = <<>> => state = prev

\* C16 on the collections and payloads that hold neither null nor undefined
C16_RemoveManyDropsNullFree ==
  (cfg.adapter = "array" /\ last.op = "removeMany" /\ last.p.k = "array"
     /\ (\A i \in 1..Len(prev) : ~Nullish(prev[i]))
     /\ (\A j \in 1..Len(last.p.items) : ~Nullish(last.p.items[j]))) =>
    /\ ~raised
    /\ state = C16_Kept(prev, last.p.items)
    /\ last.p.items = <<>> => state = prev


\* increment or toggle is aimed at an existing entity whose field, 'value'
\* by default, holds a value of the kind k
C17_Aimed(op, k) ==
  /\ cfg.adapter = "entity" /\ last.op = op
  /\ In("id", last.p)
  /\ IdOf(last.p) \in DOMAIN prev.entities
  /\ LET e == prev.entities[IdOf(last.p)]
     IN In(C10_Field(last.p), e) /\ e.f[C10_Field(last.p)].k = k

\* nothing but the field the command is aimed at has changed
C17_NothingElse ==
  LET key == IdOf(last.p)
      field == C10_Field(last.p)
  IN /\ state.ids = prev.ids
     /\ DOMAIN state.entities = DOMAIN prev.entities
     /\ \A x \in DOMAIN prev.entities \ {key} : state.entities[x] = prev.entities[x]
     /\ DOMAIN state.entities[key].f = DOMAIN prev.entities[key].f
     /\ \A x \in DOMAIN prev.entities[key].f \ {field} :
          state.entities[key].f[x] = prev.entities[key].f[x]

\* C17: increment({id, field, amount}) on an existing entity whose field
\* holds a number sets the field to its old value plus amount and changes
\* nothing else; field defaults to 'value' and amount to 1; each application
\* adds amount again, so increment is not idempotent for amount # 0.
C17_IncrementAdds ==
  C17_Aimed("increment", "number") =>
    LET key == IdOf(last.p)
        field == C10_Field(last.p)
        amount == IF In("amount", last.p) THEN last.p.f.amount.n ELSE 1
    IN /\ ~raised
       /\ state.entities[key].f[field] = Num(prev.entities[key].f[field].n + amount)
       /\ C17_NothingElse
       /\ amount # 0 => state # prev

\* C17 witness: the default increment is applied to a value that an
\* increment had already raised from 0 to 1, next to another entity.
C17_Witness ==
  /\ last.op = "increment"
  /\ last.p = Obj([id |-> Str("a")])
  /\ Len(prev.ids) = 2
  /\ "a" \in DOMAIN prev.entities
  /\ prev.entities["a"].f.value = Num(1)
  /\ state.entities["a"].f.value = Num(2)


\* the state after toggle(p) is dispatched twice from st
C18_Twice(st, p) ==
  SliceReducer(cfg, "toggle", SliceReducer(cfg, "toggle", st, p).state, p).state

\* C18: toggle({id, field}) on an existing entity whose field holds a
\* boolean negates the field and changes nothing else; field defaults to
\* 'value'; the same toggle applied twice gives back exactly the state
\* before the first, for every state.
C18_ToggleNegates ==
  /\ C17_Aimed("toggle", "boolean") =>
       /\ ~raised
       /\ state.entities[IdOf(last.p)].f[C10_Field(last.p)] =
            Bool(~prev.entities[IdOf(last.p)].f[C10_Field(last.p)].b)
       /\ C17_NothingElse
  /\ (cfg.adapter = "entity" /\ "toggle" \in Commands(cfg)) =>
       \A p \in TogglePayloads : C18_Twice(state, p) = state

\* C18 witness: the field active of the entity under "a", added as true and
\* toggled to false, is toggled back: the entity is as it was added.
C18_Witness ==
  /\ last.op = "toggle"
  /\ last.p = Obj([id |-> Str("a"), field |-> Str("active")])
  /\ "a" \in DOMAIN prev.entities
  /\ prev.entities["a"].f.active = Bool(FALSE)
  /\ state.entities["a"] = EaV
  /\ Len(state.ids) = 2


\* the empty representation of the kind holds the element data of st
C19_Empty(c, st) ==
  IF c.adapter = "entity" THEN st.entities = <<>> /\ st.ids = <<>>
  ELSE IF HasAsync(c) THEN st.data = <<>> ELSE st = <<>>

\* C19: clear reads no payload and, from any state, gives the empty
\* representation of the kind (the empty sequence; {entities: {}, ids: []}),
\* so selectAll is empty and selectTotal is 0; clear after clear gives what
\* one clear gives.
C19_ClearEmpties ==
  /\ last.op = "clear" =>
       /\ ~raised
       /\ C19_Empty(cfg, state)
       /\ cfg.adapter = "entity" => state = EmptyEntityState
       /\ SelectAll(cfg, state) = <<>>
       /\ SelectTotal(cfg, state) = 0
  /\ \A p, q \in ClearPayloads :
       LET once == SliceReducer(cfg, "clear", state, p)
           twice == SliceReducer(cfg, "clear", once.state, q)
       IN /\ ~once.raised /\ ~twice.raised
          /\ once.state = SliceReducer(cfg, "clear", state, q).state
          /\ twice.state = once.state

\* C19 witness: a container of two elements is cleared, with a payload.
C19_Witness ==
  /\ last.op = "clear"
  /\ last.p = Num(1)
  /\ SelectTotal(cfg, prev) = 2
  /\ SelectTotal(cfg, state) = 0


\* the elements a payload of set holds, in order: the items of an array, or
\* the entities of an EntityState listed by its ids
C20_Elements(c, p) ==
  IF Nullish(p) THEN <<>>
  ELSE IF c.adapter = "entity"
  THEN [i \in 1..Len(p.f.ids.items) |-> p.f.entities.f[p.f.ids.items[i].s]]
  ELSE p.items

\* C20: set(p) puts the payload in the place of the element data whatever
\* the state was, so that selectAll gives exactly p; with an absent payload
\* it gives the empty representation of the kind; set of the same payload
\* again changes nothing.
C20_SetReplaces ==
  last.op = "set" =>
    /\ ~raised
    /\ SelectAll(cfg, state) = C20_Elements(cfg, last.p)
    /\ SelectTotal(cfg, state) = Len(C20_Elements(cfg, last.p))
    /\ Nullish(last.p) => C19_Empty(cfg, state)
    /\ (cfg.adapter = "entity" /\ ~Nullish(last.p)) =>
         /\ state.entities = last.p.f.entities.f
         /\ state.ids = [i \in 1..Len(last.p.f.ids.items) |-> last.p.f.ids.items[i].s]
    /\ (cfg.adapter = "array" /\ ~HasAsync(cfg)) => state = C20_Elements(cfg, last.p)
    /\ SliceReducer(cfg, "set", state, last.p) = Ok(state)

\* C20 witness: under the overlay a collection of one element is replaced
\* by three others.
C20_Witness ==
  /\ last.op = "set"
  /\ cfg.adapter = "array" /\ HasAsync(cfg)
  /\ last.p = Arr(<<Num(1), I1A, Num(1)>>)
  /\ prev.data = <<Num(1)>>
  /\ state.data = <<Num(1), I1A, Num(1)>>


\* ids holds no duplicate, every id has an entry and every key is an id
C21_Consistent(st) ==
  /\ NoDuplicates(st.ids)
  /\ Members(st.ids) = DOMAIN st.entities

C21_SetOfConsistent(p) == Nullish(p) \/ C21_Consistent(AsEntityState(p))

C22_Status(st) == IF "status" \in DOMAIN st THEN st.status ELSE "undefined"

\* C22: under the overlay status is 'idle' only before the first started
\* notification: once it has left 'idle', no lifecycle notification and no
\* generated command makes it 'idle' again.
C22_NeverIdleAgain ==
  HasAsync(cfg) =>
    /\ C22_Status(prev) # "idle" => C22_Status(state) # "idle"
    /\ C22_Status(state) = "idle" =>
         (InFlight = 0 /\ last.op \notin {"pending", "fulfilled", "rejected"})

\* C22 for the collection kind, and for the entity kind as long as the
\* last command is not set
C22_NeverIdleAgainButSet ==
  (HasAsync(cfg) /\ ~(cfg.adapter = "entity" /\ last.op = "set")) =>
    (C22_Status(prev) # "idle" => C22_Status(state) # "idle")



\* C23: a collection with the overlay and the same collection without it,
\* given the same commands, agree on selectAll and selectTotal.  Both start
\* from the caller's initial value; whenever the two agree and a vocabulary
\* or custom command is dispatched to both, both raise or neither does, and
\* they agree afterwards; a notification, which only the container with the
\* overlay receives, leaves its selectAll as it was.
C23_WithoutOverlay(c) == [c EXCEPT !.asyncThunks = {}]

C23_OverlayAgreesWithPlain ==
  (cfg.adapter = "array" /\ HasAsync(cfg)) =>
    LET plain == C23_WithoutOverlay(cfg)
        commands == Merged(plain)
    IN /\ DOMAIN commands = DOMAIN Merged(cfg)
       /\ last.op = "init" =>
            /\ SelectAll(cfg, state) = SelectAll(plain, InitialState(plain))
            /\ SelectTotal(cfg, state) = SelectTotal(plain, InitialState(plain))
       /\ last.op = "command" =>
            LET twin == CaseReducer(plain, commands[last.key],
                                    SelectAll(cfg, prev), last.p)
            IN /\ raised = twin.raised
               /\ SelectAll(cfg, state) = SelectAll(plain, twin.state)
               /\ SelectTotal(cfg, state) = SelectTotal(plain, twin.state)
       /\ last.op \in {"pending", "fulfilled", "rejected"} =>
            /\ SelectAll(cfg, state) = SelectAll(cfg, prev)
            /\ SelectTotal(cfg, state) = SelectTotal(cfg, prev)

\* a custom reducer that returns a value has doubled a collection under the
\* overlay while a task is in flight
C23_Witness ==
  /\ cfg.adapter = "array" /\ HasAsync(cfg)
  /\ last.op = "command"
  /\ Merged(cfg)[last.key] = [kind |-> "custom", fn |-> "double"]
  /\ state.status = "pending"
  /\ Len(prev.data) = 1 /\ Len(state.data) = 2


\* C24: a notification (a task started, succeeded or failed) leaves the
\* element data as it was: data for a collection, entities and ids for an
\* entity container, and with them selectAll and selectTotal; nothing but
\* loading, error and status is written, so what a task resolves to is not
\* stored.
C24_ElementData(st) ==
  [x \in DOMAIN st \ {"loading", "error", "status"} |-> st[x]]

C24_NotificationsKeepData ==
  last.op \in {"pending", "fulfilled", "rejected"} =>
    /\ C24_ElementData(state) = C24_ElementData(prev)
    /\ SelectAll(cfg, state) = SelectAll(cfg, prev)
    /\ SelectTotal(cfg, state) = SelectTotal(cfg, prev)
    /\ IF cfg.adapter = "entity"
       THEN state.entities = prev.entities /\ state.ids = prev.ids
       ELSE state.data = prev.data

\* a task has succeeded on a container that holds elements
C24_Witness ==
  /\ last.op = "fulfilled"
  /\ SelectTotal(cfg, state) >= 1
  /\ prev.status = "pending" /\ state.status = "fulfilled"


\* C25: the initial representation is the caller's initial value, and with
\* the overlay that value extended with loading = false, error = null and
\* status = 'idle' (a collection is placed under data); so until a task
\* starts, that is, from the start and through every generated command,
\* selectLoading is false and selectStatus is 'idle'.
C25_IsInitial(c, st) ==
  IF ~HasAsync(c) THEN st = c.initialState
  ELSE /\ st.loading = FALSE /\ st.error = Null /\ st.status = "idle"
       /\ IF c.adapter = "entity"
          THEN /\ DOMAIN st = {"entities", "ids", "loading", "error", "status"}
               /\ st.entities = c.initialState.entities
               /\ st.ids = c.initialState.ids
          ELSE /\ DOMAIN st = {"data", "loading", "error", "status"}
               /\ st.data = c.initialState

C25_Idle(st) == SelectLoading(st) = Bool(FALSE) /\ SelectStatus(st) = Str("idle")

C25_InitialRepresentation ==
  last.op = "init" =>
    /\ C25_IsInitial(cfg, state)
    /\ HasAsync(cfg) => C25_Idle(state)

C25_InitialAndIdleUntilATaskStarts ==
  /\ C25_InitialRepresentation
  /\ (/\ HasAsync(cfg)
      /\ last.op = "command"
      /\ Merged(cfg)[last.key].kind = "generated"
      /\ C25_Idle(prev))
     => C25_Idle(state)


\* C26: the generated vocabulary commands are exactly the requested names
\* that belong to the vocabulary of the adapter, each under its key: a
\* requested name outside the vocabulary (an unknown name, increment or
\* toggle for a collection) has no command under any naming, nothing is
\* generated for a name that was not requested, an empty request generates
\* nothing, and assembling raises nothing.  The returned actions hold these
\* keys, those of the custom reducers and those of the thunks, and no other.
C26_Vocabulary(kind) ==
  IF kind = "entity"
  THEN {"add", "remove", "update", "clear", "set", "addMany", "removeMany", "upsert",
        "increment", "toggle"}
  ELSE {"add", "remove", "update", "clear", "set", "addMany", "removeMany", "upsert"}

C26_Key(r) == actionKey(cfg.name, r, cfg.actionNaming)

C26_GeneratedExactlyRequested ==
  LET voc == C26_Vocabulary(cfg.adapter)
      gen == GeneratedReducers(cfg)
      customKeys == {C26_Key(cfg.customReducers[i].name) : i \in 1..Len(cfg.customReducers)}
      thunkKeys == {Chars(d) : d \in cfg.asyncThunks}
  IN /\ \A r \in cfg.reducers \cap voc :
          C26_Key(r) \in DOMAIN gen /\ gen[C26_Key(r)].fn = r
     /\ \A r \in cfg.reducers \ voc :
          \A m \in Namings : actionKey(cfg.name, r, m) \notin DOMAIN gen
     /\ \A k \in DOMAIN gen : gen[k].fn \in cfg.reducers \cap voc
     /\ Cardinality(DOMAIN gen) = Cardinality(cfg.reducers \cap voc)
     /\ cfg.reducers = {} => DOMAIN gen = {}
     /\ DOMAIN Actions(cfg) = DOMAIN gen \cup customKeys \cup thunkKeys
     /\ last.op = "init" => ~raised
     /\ (last.op = "command" /\ Actions(cfg)[last.key].kind = "generated") =>
          /\ Actions(cfg)[last.key].fn \in cfg.reducers \cap voc
          /\ state = SliceReducer(cfg, Actions(cfg)[last.key].fn, prev, last.p).state

\* a collection was asked for add, toggle and bogus under prefixed keys, and
\* its one generated command, add, has been dispatched
C26_Witness ==
  /\ cfg.adapter = "array"
  /\ cfg.reducers = {"add", "toggle", "bogus"}
  /\ cfg.actionNaming = "prefixed"
  /\ cfg.customReducers = <<>>
  /\ DOMAIN Actions(cfg) \ {Chars(d) : d \in cfg.asyncThunks} = {Chars("items") \o Chars("Add")}
  /\ last.op = "command"
  /\ SelectTotal(cfg, state) = 1


\* C27: the keys follow the naming: with 'short', or with no naming given,
\* the key of a generated or custom reducer is its bare name; with
\* 'prefixed' it is the name of the slice followed by the reducer's name with
\* its first character, and only that one, in upper case ('items' and 'add'
\* give 'itemsAdd'), and there is no command under the bare name.
C27_Names ==
  Commands(cfg) \cup {cfg.customReducers[i].name : i \in 1..Len(cfg.customReducers)}

C27_IsPrefixed(key, name, n) ==
  /\ Len(key) = Len(name) + Len(n)
  /\ \A i \in 1..Len(name) : key[i] = name[i]
  /\ Len(n) > 0 => key[Len(name) + 1] = Upper(n[1])
  /\ \A i \in 2..Len(n) : key[Len(name) + i] = n[i]

C27_KeysFollowNaming ==
  LET keys == DOMAIN Merged(cfg)
  IN /\ cfg.actionNaming \in {"short", "absent"} =>
          keys = {Chars(n) : n \in C27_Names}
     /\ cfg.actionNaming = "prefixed" =>
          /\ \A n \in C27_Names :
               \E k \in keys : C27_IsPrefixed(k, Chars(cfg.name), Chars(n))
          /\ \A k \in keys :
               \E n \in C27_Names : C27_IsPrefixed(k, Chars(cfg.name), Chars(n))
          /\ \A n \in C27_Names : Chars(n) \notin DOMAIN Actions(cfg)
          /\ (cfg.name = "items" /\ "add" \in C27_Names) =>
               <<"i", "t", "e", "m", "s", "A", "d", "d">> \in keys
     /\ last.op = "command" => last.key \in keys

\* an entity container with prefixed keys has run the command under
\* 'itemsAdd', and holds nothing under 'add'
C27_Witness ==
  /\ cfg.adapter = "entity"
  /\ cfg.actionNaming = "prefixed"
  /\ last.op = "command"
  /\ last.key = <<"i", "t", "e", "m", "s", "A", "d", "d">>
  /\ <<"a", "d", "d">> \notin DOMAIN Actions(cfg)
  /\ state # prev


\* C28: every custom reducer is a command under its key, and dispatching
\* that command applies that very function to the container (to data, for a
\* collection with the overlay); where a custom reducer and a requested
\* vocabulary reducer come to the same key, the command is the custom one.
C28_Applied(c, fn, st, p) ==
  IF c.adapter = "entity"
  THEN LET r == CustomEntityReducer(fn, st, p)
       IN IF r.result = Undefined THEN r.draft ELSE r.result.f
  ELSE LET r == CustomArrayReducer(fn, IF HasAsync(c) THEN st.data ELSE st, p)
           out == IF r.result = Undefined THEN r.draft ELSE r.result.items
       IN IF HasAsync(c) THEN [st EXCEPT !.data = out] ELSE out

C28_CustomReducersAreCommands ==
  \A i \in 1..Len(cfg.customReducers) :
    LET e == cfg.customReducers[i]
        k == actionKey(cfg.name, e.name, cfg.actionNaming)
    IN /\ k \in DOMAIN Actions(cfg)
       /\ Actions(cfg)[k] = [kind |-> "custom", fn |-> e.fn]
       /\ (last.op = "command" /\ last.key = k) =>
            /\ ~raised
            /\ state = C28_Applied(cfg, e.fn, prev, last.p)

\* a collection was asked for add and given a custom reducer that resolves
\* to the same key; the command under that key has put its payload first,
\* as the custom reducer does, where add would have put it last
C28_Witness ==
  /\ cfg.adapter = "array" /\ ~HasAsync(cfg)
  /\ "add" \in Commands(cfg)
  /\ Len(cfg.customReducers) = 1
  /\ actionKey(cfg.name, cfg.customReducers[1].name, cfg.actionNaming)
       = actionKey(cfg.name, "add", cfg.actionNaming)
  /\ last.op = "command"
  /\ prev = <<E1A>> /\ last.p = EaA /\ state = <<EaA, E1A>>


\* C29: with thunks configured, the returned actions hold each thunk under
\* its own key of asyncThunks, whatever the naming (the key is never
\* prefixed), and what they hold there is the caller's thunk itself.
C29_ThunksPassThrough ==
  /\ \A d \in cfg.asyncThunks :
       /\ Chars(d) \in DOMAIN Actions(cfg)
       /\ Actions(cfg)[Chars(d)] = [kind |-> "thunk", fn |-> d]
       /\ Chars(cfg.name) \o capitalize(Chars(d)) \notin DOMAIN Actions(cfg)
  /\ \A k \in DOMAIN Actions(cfg) :
       Actions(cfg)[k].kind = "thunk" =>
         \E d \in cfg.asyncThunks : k = Chars(d) /\ Actions(cfg)[k].fn = d
  /\ last.op = "pending" => Actions(cfg)[Chars(last.thunk)].fn = last.thunk

\* under prefixed keys, the thunk found under 'fetchUsers' has been started
C29_Witness ==
  /\ cfg.actionNaming = "prefixed"
  /\ cfg.asyncThunks = {"fetchUsers"}
  /\ DOMAIN Merged(cfg) # {}
  /\ last.op = "pending" /\ last.thunk = "fetchUsers"


\* C30: the selectors depend on the configuration alone: selectAll and
\* selectTotal always; selectIds, selectEntities and selectById for the
\* entity adapter; selectLoading, selectError and selectStatus with the
\* overlay, for both adapters; and no other.
C30_SelectorsByConfiguration ==
  Selectors(cfg) =
    {"selectAll", "selectTotal"}
    \cup (IF cfg.adapter = "entity"
          THEN {"selectIds", "selectEntities", "selectById"} ELSE {})
    \cup (IF cfg.asyncThunks # {}
          THEN {"selectLoading", "selectError", "selectStatus"} ELSE {})

\* a collection with the overlay has its five selectors, and selectStatus
\* reads 'pending' while selectAll reads an element
C30_Witness ==
  /\ cfg.adapter = "array" /\ cfg.asyncThunks # {}
  /\ Cardinality(Selectors(cfg)) = 5
  /\ SelectStatus(state) = Str("pending") /\ SelectLoading(state) = Bool(TRUE)
  /\ SelectTotal(cfg, state) = 1


\* C31: for an entity container upsert is add under another name: on every
\* state and for every payload, one entity or an array of entities, both
\* leave the same state (and raise on the same payloads); addMany given an
\* array leaves the state add leaves for that array.
C31_UpsertIsAdd ==
  /\ \A p \in EntityAddPayloads :
       /\ EntityReducer("upsert", state, p) = EntityReducer("add", state, p)
       /\ p.k = "array" =>
            EntityReducer("addMany", state, p) = EntityReducer("add", state, p)
  /\ last.op = "upsert" =>
       /\ state = EntityReducer("add", prev, last.p).state
       /\ raised = EntityReducer("add", prev, last.p).raised
  /\ (last.op = "addMany" /\ last.p.k = "array") =>
       state = EntityReducer("add", prev, last.p).state

\* upsert has replaced an entity that was stored, keeping ids as it was
C31_Witness ==
  /\ last.op = "upsert"
  /\ last.p = E1sZ
  /\ "1" \in DOMAIN prev.entities
  /\ prev.entities["1"] # E1sZ
  /\ state.entities["1"] = E1sZ
  /\ state.ids = prev.ids


\* C32: removeMany of a collection takes raw identifiers: on a collection of
\* objects that carry an id, removeMany([x1, ..., xn]) with strings or
\* numbers x1..xn leaves exactly the elements whose id is none of them.
C32_RawIds(p) ==
  /\ p.k = "array" /\ Len(p.items) > 0
  /\ \A i \in 1..Len(p.items) : p.items[i].k \in {"string", "number"}

C32_CarryIds(seq) ==
  \A i \in 1..Len(seq) : In("id", seq[i]) /\ seq[i].f.id.k \in {"string", "number"}

C32_RemoveManyByRawIds ==
  (/\ cfg.adapter = "array" /\ last.op = "removeMany"
   /\ C32_RawIds(last.p) /\ C32_CarryIds(prev)) =>
    LET named == {toId(last.p.items[i]) : i \in 1..Len(last.p.items)}
        kept(item) == toId(item.f.id) \notin named
    IN ~raised /\ state = SelectSeq(prev, kept)

\* what removeMany does with raw identifiers: it compares them with the
\* elements themselves, so an object that carries one of them stays
C32_RawIdsCompareAsValues ==
  (/\ cfg.adapter = "array" /\ last.op = "removeMany"
   /\ C32_RawIds(last.p) /\ C32_CarryIds(prev)) =>
    ~raised /\ state = prev


\* C33: under the overlay, for both adapters, every generated command (add,
\* remove, update, clear, set, addMany, removeMany, upsert, and increment and
\* toggle for an entity container) leaves loading, error and status present
\* and as they were.
C33_Generated ==
  {"add", "remove", "update", "clear", "set", "addMany", "removeMany", "upsert",
   "increment", "toggle"}

C33_LifecycleKept(before, after) ==
  /\ {"loading", "error", "status"} \subseteq DOMAIN after
  /\ {"loading", "error", "status"} \subseteq DOMAIN before
  /\ after.loading = before.loading
  /\ after.error = before.error
  /\ after.status = before.status

C33_CommandsKeepLifecycle ==
  (HasAsync(cfg) /\ last.op \in C33_Generated) => C33_LifecycleKept(prev, state)

\* the same, leaving out clear and set of an entity container and what
\* follows them
C33_CommandsKeepLifecycleButClearAndSet ==
  (/\ HasAsync(cfg) /\ last.op \in C33_Generated
   /\ ~(cfg.adapter = "entity" /\ last.op \in {"clear", "set"})
   /\ {"loading", "error", "status"} \subseteq DOMAIN prev)
  => C33_LifecycleKept(prev, state)


\* C34: each task delivers its started notification and later exactly one
\* succeeded or failed notification; however many tasks overlap and however
\* their notifications interleave, in every state in which no task is in
\* flight loading is false and status is not 'pending'.
C34_SettledWhenNoneInFlight ==
  InFlight = 0 => (state.loading = FALSE /\ state.status # "pending")

\* two tasks of different thunks have overlapped, the first to settle
\* succeeded, and the failure of the other has left no task in flight
C34_Witness ==
  /\ overlapped
  /\ InFlight = 0
  /\ last.op = "rejected"
  /\ prev.status = "fulfilled"
  /\ state.status = "rejected" /\ state.loading = FALSE


\* C35: if tasks are started only finitely often, and every task that was
\* started delivers its succeeded or failed notification in the end, then
\* the container comes to a state with loading = false and status
\* 'fulfilled' or 'rejected' and stays there, however the notifications
\* interleave.  (With no task started at all there is nothing to settle and
\* the container stays at 'idle'.)
C35_Settled == state.loading = FALSE /\ state.status \in {"fulfilled", "rejected"}

C35_EventuallySettledForGood ==
  (/\ <>(last.op = "pending")
   /\ <>[][~\E d \in Thunks : Pending(d)]_vars)
  => <>[]C35_Settled

\* tasks have overlapped and all of them have settled
C35_Witness ==
  /\ overlapped
  /\ InFlight = 0
  /\ last.op = "fulfilled"
  /\ C35_Settled


\* C36: in every state reached from the initial state under the overlay by
\* notifications alone, of any number of thunks in any interleaving, the
\* lifecycle fields agree with each other: status is 'idle', 'pending',
\* 'fulfilled' or 'rejected'; loading is true exactly when status is
\* 'pending'; error is other than null exactly when status is 'rejected'.
C36_LifecycleConsistent ==
  /\ state.status \in {"idle", "pending", "fulfilled", "rejected"}
  /\ state.loading \in BOOLEAN
  /\ state.loading <=> state.status = "pending"
  /\ ~Nullish(state.error) <=> state.status = "rejected"

\* a task was started after another had failed: the reason is cleared and
\* the container is pending while two tasks are in flight
C36_Witness ==
  /\ last.op = "pending"
  /\ prev.status = "rejected" /\ ~Nullish(prev.error)
  /\ state.status = "pending" /\ state.loading /\ state.error = Null
  /\ InFlight = 2


\* C37: in an entity container that starts empty, after any add, upsert,
\* addMany, update, remove, removeMany, increment, toggle and clear, every
\* entity is stored under the string form of its own id:
\* String(entities[k].id) = k for every key k of entities.
C37_Keyed(st) ==
  \A k \in DOMAIN st.entities : toId(Get(st.entities[k], "id")) = k

C37_StoredUnderOwnId == C37_Keyed(state)

\* the same, step by step, for every command but an update whose changes
\* name id and an increment of the field id
C37_TouchesId(op, p) ==
  \/ op = "update" /\ In("changes", p) /\ In("id", Get(p, "changes"))
  \/ op = "increment" /\ Get(p, "field") = Str("id")

C37_StoredUnderOwnIdUnlessIdIsWritten ==
  (C37_Keyed(prev) /\ ~C37_TouchesId(last.op, last.p)) => C37_Keyed(state)


\* C38: on every collection, removing by identifier is the same through the
\* single and the bulk command: remove({id: x}) and removeMany([{id: x}])
\* leave the same collection, for a string and for a numeric x, also when
\* the collection mixes objects that carry an id with elements that do not.
C38_Ids == {Num(1), Str("1"), Str("b")}

C38_SingleIsBulk(st, x) ==
  ArrayReducer("remove", st, Obj([id |-> x]))
    = ArrayReducer("removeMany", st, Arr(<<Obj([id |-> x])>>))

C38_RemoveByIdSingleIsBulk ==
  cfg.adapter = "array" => \A x \in C38_Ids : C38_SingleIsBulk(state, x)

\* the same on the collections in which no element carries x in the other
\* type (the number 1 against the string '1')
C38_OtherType(st, x) ==
  \E i \in 1..Len(st) :
    /\ In("id", st[i])
    /\ toId(st[i].f.id) = toId(x)
    /\ st[i].f.id # x

C38_SingleIsBulkButOtherType ==
  cfg.adapter = "array" =>
    \A x \in C38_Ids : ~C38_OtherType(state, x) => C38_SingleIsBulk(state, x)


\* C39: upsert of a collection replaces an element only when it carries the
\* identifier of the payload item: an item without an id field, a primitive
\* or an object without id, matches no element and is appended at the end,
\* every element staying as it was.  (Stated for collections that hold no
\* null or undefined element, on which upsert raises.)
C39_WithoutId(p) ==
  /\ ~Nullish(p)
  /\ p.k # "array"
  /\ ~In("id", p)

C39_UpsertWithoutIdAppends ==
  (/\ cfg.adapter = "array" /\ last.op = "upsert" /\ C39_WithoutId(last.p)
   /\ \A i \in 1..Len(prev) : ~Nullish(prev[i]))
  => ~raised /\ state = Append(prev, last.p)

\* the same on the collections all of whose elements carry an id
C39_AppendsWhenAllCarryId ==
  (/\ cfg.adapter = "array" /\ last.op = "upsert" /\ C39_WithoutId(last.p)
   /\ \A i \in 1..Len(prev) : In("id", prev[i]))
  => ~raised /\ state = Append(prev, last.p)


\* C40: the overlay is applied exactly when asyncThunks holds at least one
\* thunk.  With asyncThunks absent or empty (both are the empty set of the
\* model) the representation the container is created with is the plain one,
\* a bare sequence or entities and ids only, without loading, error and
\* status, and no lifecycle selector is returned; with one thunk or more the
\* three fields and the three selectors are all there.
C40_LifecycleSelectors == {"selectLoading", "selectError", "selectStatus"}

C40_OverlayExactlyWithThunks ==
  LET created == InitialState(cfg)
  IN /\ last.op = "init" => state = created
     /\ cfg.asyncThunks = {} =>
          /\ created = cfg.initialState
          /\ cfg.adapter = "entity" => DOMAIN created = {"entities", "ids"}
          /\ cfg.adapter = "array" => created \in Seq(Items)
          /\ Selectors(cfg) \cap C40_LifecycleSelectors = {}
     /\ cfg.asyncThunks # {} =>
          /\ {"loading", "error", "status"} \subseteq DOMAIN created
          /\ IF cfg.adapter = "entity"
             THEN DOMAIN created = {"entities", "ids", "loading", "error", "status"}
             ELSE DOMAIN created = {"data", "loading", "error", "status"}
          /\ C40_LifecycleSelectors \subseteq Selectors(cfg)

\* an entity container with one thunk holds the three fields beside its
\* entities, and its lifecycle selectors read them while the task runs
C40_Witness ==
  /\ cfg.adapter = "entity"
  /\ Cardinality(cfg.asyncThunks) = 1
  /\ C40_LifecycleSelectors \subseteq Selectors(cfg)
  /\ last.op = "pending"
  /\ DOMAIN state = {"entities", "ids", "loading", "error", "status"}
  /\ state.ids # <<>>
  /\ SelectLoading(state) = Bool(TRUE)

====
